---- MODULE Spec2Model ----
(***************************************************************************)
(* Waveform retracking engine of pysiral (pysiral/retracker.py) and the    *)
(* Level-2 merge (pysiral/l2data.py).                                      *)
(*                                                                         *)
(* Number representation.  Echo power samples are naturals; the value NaNv *)
(* stands for a NaN sample.  The filtered (oversampled and smoothed)       *)
(* waveform is kept as exact integers: the oversampled sample j is kept    *)
(* multiplied by D = n*k-1 (the linspace denominator) and the moving       *)
(* average is kept multiplied by the window size, so every comparison the  *)
(* code makes between normalised powers is an exact integer comparison.    *)
(* Retracked range, power and uncertainty are exact rationals [n, d];      *)
(* d = 0 encodes the IEEE specials: 0/0 NaN, 1/0 +inf, -1/0 -inf.          *)
(***************************************************************************)
EXTENDS Integers, Sequences, FiniteSets, TLC

----------------------------------------------------------------------------
(* Numbers *)

NaNv == -1

IsNaNv(x) == x < 0

Abs(x) == IF x < 0 THEN 0 - x ELSE x

Sign(x) == IF x < 0 THEN 0 - 1 ELSE IF x > 0 THEN 1 ELSE 0

RECURSIVE GCD(_, _)
GCD(a, b) == IF b = 0 THEN a ELSE GCD(b, a % b)

\* the rational n/d in lowest terms, with the IEEE specials for d = 0
Rat(n, d) ==
    IF d = 0 THEN [n |-> Sign(n), d |-> 0]
    ELSE LET g == GCD(Abs(n), Abs(d))
         IN  [n |-> Sign(d) * (n \div g), d |-> Abs(d) \div g]

NaN == [n |-> 0, d |-> 0]

IsNaN(x) == x.d = 0 /\ x.n = 0

IsInf(x) == x.d = 0 /\ x.n # 0

IsFinite(x) == x.d > 0

RatInt(i) == [n |-> i, d |-> 1]

RatAdd(x, y) ==
    IF IsNaN(x) \/ IsNaN(y) THEN NaN
    ELSE IF IsInf(x) /\ IsInf(y) THEN (IF x.n = y.n THEN x ELSE NaN)
    ELSE IF IsInf(x) THEN x
    ELSE IF IsInf(y) THEN y
    ELSE Rat(x.n * y.d + y.n * x.d, x.d * y.d)

RatNeg(x) == [n |-> 0 - x.n, d |-> x.d]

RatSub(x, y) == RatAdd(x, RatNeg(y))

RatMul(x, y) ==
    IF IsNaN(x) \/ IsNaN(y) THEN NaN
    ELSE IF x.d = 0 \/ y.d = 0 THEN Rat(Sign(x.n) * Sign(y.n), 0)
    ELSE Rat(x.n * y.n, x.d * y.d)

\* float division: x/0 is +-inf or NaN, never an exception (numpy scalars)
RatDiv(x, y) ==
    IF IsNaN(x) \/ IsNaN(y) THEN NaN
    ELSE IF IsInf(y) THEN (IF IsInf(x) THEN NaN ELSE RatInt(0))
    ELSE IF IsInf(x) THEN Rat(x.n * (IF y.n < 0 THEN 0 - 1 ELSE 1), 0)
    ELSE Rat(x.n * y.d, x.d * y.n)

\* x < y on finite rationals; FALSE as soon as a NaN is involved
RatLt(x, y) ==
    IF IsNaN(x) \/ IsNaN(y) THEN FALSE
    ELSE IF x.d = 0 \/ y.d = 0
         THEN (IF x.d = 0 /\ y.d = 0 THEN x.n < y.n
               ELSE IF x.d = 0 THEN x.n < 0 ELSE y.n > 0)
    ELSE x.n * y.d < y.n * x.d

RatLe(x, y) == RatLt(x, y) \/ (~IsNaN(x) /\ x = y)

----------------------------------------------------------------------------
(* Array helpers: numpy arrays are 0-based, TLA+ sequences 1-based *)

At(s, i) == s[i + 1]

RECURSIVE SumTo(_, _, _)
SumTo(f, lo, hi) == IF lo > hi THEN 0 ELSE f[lo] + SumTo(f, lo + 1, hi)

Min(S) == CHOOSE x \in S : \A y \in S : x <= y

Max(S) == CHOOSE x \in S : \A y \in S : x >= y

\* the elements of a set of integers in increasing order (np.where output)
RECURSIVE SortedSeq(_)
SortedSeq(S) == IF S = {} THEN <<>> ELSE <<Min(S)>> \o SortedSeq(S \ {Min(S)})

----------------------------------------------------------------------------
(* Oversampling and smoothing (filter_waveform) *)

\* np.linspace(nanmin(rng), nanmax(rng), n*k): sample j, kept multiplied by
\* D = n*k-1
linspace(rng, k) ==
    LET n    == Len(rng)
        D    == n * k - 1
        rmin == Min({rng[b] : b \in 1..n})
        rmax == Max({rng[b] : b \in 1..n})
    IN  [j \in 1..(n * k) |-> rmin * (D - (j - 1)) + rmax * (j - 1)]

\* scipy interp1d(rng, wfm, kind="linear") evaluated at the points X/D: the
\* bracketing interval is found with searchsorted (left) clipped to [1, n-1],
\* a NaN at either end of the interval gives NaN.  The result is kept
\* multiplied by D (range bins are one unit apart).
Lerp(rng, wfm, hi, x, D) ==
    IF IsNaNv(At(wfm, hi - 1)) \/ IsNaNv(At(wfm, hi)) THEN NaNv
    ELSE (At(wfm, hi - 1) * (At(rng, hi) * D - x)
          + At(wfm, hi) * (x - At(rng, hi - 1) * D))
         \div (At(rng, hi) - At(rng, hi - 1))

Clip(c, lo, hi) == IF c < lo THEN lo ELSE IF c > hi THEN hi ELSE c

interp1d(rng, wfm, X, D) ==
    [j \in 1..Len(X) |->
        Lerp(rng, wfm,
             Clip(Cardinality({b \in 0..(Len(rng) - 1) : At(rng, b) * D < X[j]}),
                  1, Len(rng) - 1),
             X[j], D)]

\* sum of x over the 0-based positions lo..hi, zero outside the array, NaN
\* as soon as one sample inside the array and the window is NaN
WindowSum(x, lo, hi) ==
    LET n  == Len(x)
        a  == IF lo < 0 THEN 0 ELSE lo
        b  == IF hi > n - 1 THEN n - 1 ELSE hi
    IN  IF \E t \in a..b : IsNaNv(At(x, t)) THEN NaNv
        ELSE SumTo(x, a + 1, b + 1)

\* np.convolve(x, np.ones(window)/window, mode='same'), kept multiplied by
\* window: output j covers x[j-window+1+(window-1)//2 .. j+(window-1)//2]
smooth(x, window) ==
    LET h == (window - 1) \div 2
    IN  [j \in 1..Len(x) |-> WindowSum(x, (j - 1) - window + 1 + h, (j - 1) + h)]

\* zero padding by pad = int((window-1)/2) and bn.move_mean, kept multiplied
\* by window: output j covers x[j-pad .. j-pad+window-1]
bnsmooth(x, window) ==
    LET pad == (window - 1) \div 2
    IN  [j \in 1..Len(x) |-> WindowSum(x, (j - 1) - pad, (j - 1) - pad + window - 1)]

\* cython kernel of the optimized variant: the same resampling as
\* linspace + linear interpolation
Interpolated(rng, wfm, X, D) == [rng |-> X, wfm |-> interp1d(rng, wfm, X, D)]

cytfmra_interpolate(rng, wfm, k) ==
    Interpolated(rng, wfm, linspace(rng, k), Len(rng) * k - 1)

\* TFMRA.filter_waveform / SICCI2TfmraEnvisat.filter_waveform
Smoothed(X, wfm_os, D, w) == [rng |-> X, wfm |-> smooth(wfm_os, w), D |-> D, w |-> w]

Resampled(rng, wfm, X, D, w) == Smoothed(X, interp1d(rng, wfm, X, D), D, w)

filter_waveform(rng, wfm, radar_mode, opt) ==
    Resampled(rng, wfm, linspace(rng, opt.wfm_oversampling_factor),
              Len(rng) * opt.wfm_oversampling_factor - 1,
              At(opt.wfm_smoothing_window_size, radar_mode))

\* cTFMRA.filter_waveform
BnSmoothed(os, D, w) == [rng |-> os.rng, wfm |-> bnsmooth(os.wfm, w), D |-> D, w |-> w]

c_filter_waveform(rng, wfm, radar_mode, opt) ==
    BnSmoothed(cytfmra_interpolate(rng, wfm, opt.wfm_oversampling_factor),
               Len(rng) * opt.wfm_oversampling_factor - 1,
               At(opt.wfm_smoothing_window_size, radar_mode))

----------------------------------------------------------------------------
(* Normalisation, noise floor and first maximum *)

\* np.nanmax / bn.nanmax of the scaled samples: NaN when all are NaN
nanmax(y) ==
    LET fin == {y[j] : j \in 1..Len(y)} \ {NaNv}
    IN  IF fin = {} THEN NaNv ELSE Max(fin)

\* y/norm: the normalised samples as rationals (0/0 and NaN/x are NaN) and
\* norm in power units
DivideBy(y, m, D, w) ==
    [wfm  |-> [j \in 1..Len(y) |->
                 IF IsNaNv(y[j]) \/ IsNaNv(m) THEN NaN ELSE Rat(y[j], m)],
     norm |-> IF IsNaNv(m) THEN NaN ELSE Rat(m, D * w)]

normalize_wfm(y, D, w) == DivideBy(y, nanmax(y), D, w)

\* the kernel of the optimized variant normalises in the same way
cytfmra_normalize_wfm(y, D, w) == normalize_wfm(y, D, w)

RECURSIVE RatSum(_, _, _)
RatSum(f, lo, hi) ==
    IF lo > hi THEN RatInt(0)
    ELSE IF IsNaN(f[lo]) THEN RatSum(f, lo + 1, hi)
    ELSE RatAdd(f[lo], RatSum(f, lo + 1, hi))

\* bn.nanmean(wfm[0:5*oversample_factor])
wfm_get_noise_level(wfm, oversample_factor) ==
    LET hi == IF 5 * oversample_factor > Len(wfm) THEN Len(wfm)
              ELSE 5 * oversample_factor
        c  == Cardinality({j \in 1..hi : ~IsNaN(wfm[j])})
    IN  IF c = 0 THEN NaN ELSE RatDiv(RatSum(wfm, 1, hi), RatInt(c))

cytfmra_wfm_noise_level(wfm, oversample_factor) ==
    wfm_get_noise_level(wfm, oversample_factor)

\* np.argmax: the first NaN wins, else the first largest sample (0-based)
argmax(wfm) ==
    LET n    == Len(wfm)
        nans == {j \in 1..n : IsNaN(wfm[j])}
    IN  IF nans # {} THEN Min(nans) - 1
        ELSE Min({j \in 1..n : \A t \in 1..n : RatLe(wfm[t], wfm[j])}) - 1

\* bn.nanargmax: NaN ignored; -1 stands for the ValueError on all-NaN input
nanargmax(wfm) ==
    LET n   == Len(wfm)
        fin == {j \in 1..n : ~IsNaN(wfm[j])}
    IN  IF fin = {} THEN 0 - 1
        ELSE Min({j \in fin : \A t \in fin : RatLe(wfm[t], wfm[j])}) - 1

\* findpeaks(data) with spacing=1: the 0-based indices that are strictly
\* above both neighbours; the array is padded on both sides with the edge
\* value minus 1e-6, so an edge sample only has to beat its inner neighbour.
\* The caller handles the IndexError raised for empty data.
findpeaks(data) ==
    LET n == Len(data)
        above(j, t) == IF t < 1 \/ t > n THEN IsFinite(data[j])
                       ELSE RatLt(data[t], data[j])
    IN  SortedSeq({j - 1 : j \in {t \in 1..n : above(t, t - 1) /\ above(t, t + 1)}})

\* cython kernel of the optimized variant: the same peak test
cytfmra_findpeaks(data) == findpeaks(data)

\* the first entry of peaks whose power is >= peak_minimum_power, else dflt
FirstLeadingMaximum(wfm, peaks, peak_minimum_power, dflt) ==
    LET leading_maxima == {p \in 1..Len(peaks) :
                              RatLe(peak_minimum_power, At(wfm, peaks[p]))}
    IN  IF leading_maxima # {} THEN peaks[Min(leading_maxima)] ELSE dflt

\* TFMRA.get_first_maximum_index (SICCI2TfmraEnvisat has the same body)
FirstMaximumBefore(wfm, peak_minimum_power, absolute_maximum_index) ==
    IF absolute_maximum_index = 0 THEN 0 - 1
    ELSE FirstLeadingMaximum(wfm,
             findpeaks(SubSeq(wfm, 1, absolute_maximum_index)),
             peak_minimum_power, absolute_maximum_index)

get_first_maximum_index(wfm, peak_minimum_power) ==
    FirstMaximumBefore(wfm, peak_minimum_power, argmax(wfm))

\* cTFMRA.get_first_maximum_index
FirstMaximumUpTo(wfm, peak_minimum_power, absolute_maximum_index) ==
    IF absolute_maximum_index = 0 - 1 THEN 0 - 1
    ELSE FirstLeadingMaximum(wfm,
             cytfmra_findpeaks(SubSeq(wfm, 1, absolute_maximum_index + 1)),
             peak_minimum_power, absolute_maximum_index)

c_get_first_maximum_index(wfm, peak_minimum_power) ==
    FirstMaximumUpTo(wfm, peak_minimum_power, nanargmax(wfm))

\* TFMRA.get_filtered_wfm / SICCI2TfmraEnvisat.get_filtered_wfm
\* range of the oversampled bins in range units
FiltRng(f) == [j \in 1..Len(f.rng) |-> Rat(f.rng[j], f.D)]

Filtered(f, nw, fmi) ==
    [filt_rng |-> FiltRng(f), filt_wfm |-> nw.wfm, fmi |-> fmi, norm |-> nw.norm]

FirstMaximum(f, nw, radar_mode, opt) ==
    Filtered(f, nw,
        get_first_maximum_index(nw.wfm,
            RatAdd(At(opt.first_maximum_normalized_threshold, radar_mode),
                   wfm_get_noise_level(nw.wfm, opt.wfm_oversampling_factor))))

Normalized(f, radar_mode, opt) ==
    FirstMaximum(f, normalize_wfm(f.wfm, f.D, f.w), radar_mode, opt)

get_filtered_wfm(rng, wfm, radar_mode, opt) ==
    Normalized(filter_waveform(rng, wfm, radar_mode, opt), radar_mode, opt)

\* cTFMRA.get_filtered_wfm
c_FirstMaximum(f, nw, radar_mode, opt) ==
    Filtered(f, nw,
        c_get_first_maximum_index(nw.wfm,
            RatAdd(At(opt.first_maximum_normalized_threshold, radar_mode),
                   cytfmra_wfm_noise_level(nw.wfm, opt.wfm_oversampling_factor))))

c_Normalized(f, radar_mode, opt) ==
    c_FirstMaximum(f, cytfmra_normalize_wfm(f.wfm, f.D, f.w), radar_mode, opt)

c_get_filtered_wfm(rng, wfm, radar_mode, opt) ==
    c_Normalized(c_filter_waveform(rng, wfm, radar_mode, opt), radar_mode, opt)

----------------------------------------------------------------------------
(* Threshold crossing (get_threshold_range) *)

\* a[i] with Python's index rule: -1 is the last element
PyAt(a, i) == IF i < 0 THEN a[Len(a) + i + 1] ELSE a[i + 1]

\* linear interpolation of the range where the power equals tfmra_power,
\* between retrack_point and the sample before it
InterpolateCrossing(rng, wfm, retrack_point, tfmra_power) ==
    LET i0 == retrack_point - 1
        i1 == retrack_point
        gradient == RatDiv(RatSub(PyAt(wfm, i1), PyAt(wfm, i0)),
                           RatSub(PyAt(rng, i1), PyAt(rng, i0)))
    IN  RatAdd(RatDiv(RatSub(tfmra_power, PyAt(wfm, i0)), gradient), PyAt(rng, i0))

\* np.where(wfm[:first_maximum_index] > tfmra_power)[0]
PointsAbove(wfm, first_maximum_index, tfmra_power) ==
    {j \in 0..(first_maximum_index - 1) : RatLt(tfmra_power, At(wfm, j))}

\* TFMRA.get_threshold_range and cTFMRA.get_threshold_range (same body)
FirstCrossing(rng, wfm, points, tfmra_power) ==
    IF points = {} THEN [range |-> NaN, power |-> NaN]
    ELSE [range |-> InterpolateCrossing(rng, wfm, Min(points), tfmra_power),
          power |-> tfmra_power]

CrossingAt(rng, wfm, first_maximum_index, tfmra_power) ==
    FirstCrossing(rng, wfm, PointsAbove(wfm, first_maximum_index, tfmra_power),
                  tfmra_power)

get_threshold_range(rng, wfm, first_maximum_index, threshold) ==
    CrossingAt(rng, wfm, first_maximum_index,
               RatMul(threshold, At(wfm, first_maximum_index)))

\* SICCI2TfmraEnvisat.get_threshold_range: the start of the run after the
\* last gap of the points above the threshold
\* potential_points[diff_points_gap[-1]+1] if there is a gap, else
\* potential_points[0]
LastRunStart(potential_points) ==
    LET run_starts == {p \in potential_points :
                          p # Min(potential_points) /\ (p - 1) \notin potential_points}
    IN  IF run_starts # {} THEN Max(run_starts) ELSE Min(potential_points)

LastRunCrossing(rng, wfm, potential_points, tfmra_power) ==
    IF potential_points = {} THEN [range |-> NaN, power |-> NaN]
    ELSE [range |-> InterpolateCrossing(rng, wfm, LastRunStart(potential_points),
                                        tfmra_power),
          power |-> tfmra_power]

sicci2_CrossingAt(rng, wfm, first_maximum_index, tfmra_power) ==
    LastRunCrossing(rng, wfm, PointsAbove(wfm, first_maximum_index, tfmra_power),
                    tfmra_power)

sicci2_get_threshold_range(rng, wfm, first_maximum_index, threshold) ==
    sicci2_CrossingAt(rng, wfm, first_maximum_index,
                      RatMul(threshold, At(wfm, first_maximum_index)))

----------------------------------------------------------------------------
(* Threshold policies (get_tfmra_threshold) *)

RECURSIVE RatPow(_, _)
RatPow(x, e) == IF e = 0 THEN RatInt(1) ELSE RatMul(x, RatPow(x, e - 1))

\* sum over the coefficients of coef[i] * x**(i + first), i from 0
RECURSIVE PolySum(_, _, _, _)
PolySum(coef, x, first, i) ==
    IF i >= Len(coef) THEN RatInt(0)
    ELSE RatAdd(RatMul(At(coef, i), RatPow(x, i + first)),
                PolySum(coef, x, first, i + 1))

ThresholdTypes == {"fixed", "sigma_func", "sitype_sigma_func", "poly_plane_fit"}

\* a policy whose sea ice type test is sitype >= 0.5
PolicyValueNonStrict(option, sigma0, lew, sitype, i) ==
    CASE option.type = "float"      -> option.value
      [] option.type = "fixed"      -> option.value
      [] option.type = "sigma_func" -> PolySum(option.coef, sigma0[i], 0, 0)
      [] option.type = "sitype_sigma_func" ->
             IF RatLe(Rat(1, 2), sitype[i])
             THEN PolySum(option.coef_myi, sigma0[i], 0, 0)
             ELSE PolySum(option.coef_fyi, sigma0[i], 0, 0)
      [] option.type = "poly_plane_fit" ->
             RatAdd(option.intercept,
                    RatAdd(PolySum(option.coef_lew, lew[i], 1, 0),
                           PolySum(option.coef_sig0, sigma0[i], 1, 0)))

\* the per-record value of a recognised policy, before it is copied to the
\* in-scope indices
PolicyValue(option, sigma0, lew, sitype, i) ==
    CASE option.type = "float"      -> option.value
      [] option.type = "fixed"      -> option.value
      [] option.type = "sigma_func" -> PolySum(option.coef, sigma0[i], 0, 0)
      [] option.type = "sitype_sigma_func" ->
             IF RatLt(Rat(1, 2), sitype[i])
             THEN PolySum(option.coef_myi, sigma0[i], 0, 0)
             ELSE PolySum(option.coef_fyi, sigma0[i], 0, 0)
      [] option.type = "poly_plane_fit" ->
             RatAdd(option.intercept,
                    RatAdd(PolySum(option.coef_lew, lew[i], 1, 0),
                           PolySum(option.coef_sig0, sigma0[i], 1, 0)))

\* an unrecognised option.type raises ValueError (a float is the legacy form)
ThresholdRaises(option) == option.type \notin (ThresholdTypes \cup {"float"})

\* a threshold array filled for every record, in the index set or not
ThresholdArrayFull(option, sigma0, lew, sitype, indices) ==
    [i \in DOMAIN sigma0 |-> PolicyValue(option, sigma0, lew, sitype, i)]

\* threshold array of n_records entries: the policy value at the indices,
\* NaN elsewhere
ThresholdArray(option, sigma0, lew, sitype, indices) ==
    LET scope == {indices[p] : p \in 1..Len(indices)}
    IN  [i \in DOMAIN sigma0 |->
            IF i \in scope THEN PolicyValue(option, sigma0, lew, sitype, i) ELSE NaN]

\* cTFMRA.get_tfmra_threshold
c_get_tfmra_threshold(options, l1b, l2, indices) ==
    ThresholdArray(options.threshold, l1b.classifier.sigma0,
                   l1b.classifier.leading_edge_width, l2.sitype, indices)

\* SICCI2TfmraEnvisat.get_tfmra_threshold, with lew = lew1 + lew2
sicci2_get_tfmra_threshold(options, l1b, l2, indices) ==
    LET lew1 == l1b.classifier.leading_edge_width_first_half
        lew2 == l1b.classifier.leading_edge_width_second_half
    IN  ThresholdArray(options.threshold, l1b.classifier.sigma0,
                       [i \in DOMAIN lew1 |-> RatAdd(lew1[i], lew2[i])],
                       l2.sitype, indices)

----------------------------------------------------------------------------
(* BaseRetracker *)

RetrackerClasses == {"TFMRA", "cTFMRA", "SICCI2TfmraEnvisat"}

\* the retracker whose l2_retrack ends with _filter_results
FilterClasses == {"SICCIOcog"}

NoIndices == [none |-> TRUE, idx |-> <<>>]

\* BaseRetracker.__init__
NewRetracker(pyclass) ==
    [pyclass        |-> pyclass,
     options        |-> [none |-> TRUE],
     indices        |-> NoIndices,
     has_classifier |-> FALSE,
     range          |-> <<>>,
     power          |-> <<>>,
     uncertainty    |-> <<>>,
     flag           |-> <<>>,
     auxdata_output |-> <<>>]

\* BaseRetracker.set_options
set_options(ret, opt_dict) == [ret EXCEPT !.options = opt_dict]

\* a set_indices that drops its argument, so that retrack() falls back to
\* all records
set_indices_ignored(ret, indices) == [ret EXCEPT !.indices = NoIndices]

\* BaseRetracker.set_indices
set_indices(ret, indices) == [ret EXCEPT !.indices = [none |-> FALSE, idx |-> indices]]

\* BaseRetracker.set_classifier
set_classifier(ret) == [ret EXCEPT !.has_classifier = TRUE]

\* default arrays that are allocated only when the instance has none yet
create_default_properties_once(ret, n_records) ==
    IF ret.range # << >> THEN ret
    ELSE [ret EXCEPT !.range       = [i \in 0..(n_records - 1) |-> NaN],
                     !.power       = [i \in 0..(n_records - 1) |-> NaN],
                     !.uncertainty = [i \in 0..(n_records - 1) |-> RatInt(0)],
                     !.flag        = [i \in 0..(n_records - 1) |-> FALSE]]

\* BaseRetracker._create_default_properties
create_default_properties(ret, n_records) ==
    [ret EXCEPT !.range       = [i \in 0..(n_records - 1) |-> NaN],
                !.power       = [i \in 0..(n_records - 1) |-> NaN],
                !.uncertainty = [i \in 0..(n_records - 1) |-> RatInt(0)],
                !.flag        = [i \in 0..(n_records - 1) |-> FALSE]]

\* BaseRetracker.register_auxdata_output
register_auxdata_output(ret, var_id, var_name, value) ==
    [ret EXCEPT !.auxdata_output =
        Append(@, [var_id |-> var_id, var_name |-> var_name, value |-> value])]

\* "range_bias" in options: self._range[np.where(radar_mode == m)] -= bias[m]
ApplyRangeBias(range, options, radar_mode) ==
    IF "range_bias" \in DOMAIN options
    THEN [i \in DOMAIN range |->
             RatSub(range[i], At(options.range_bias, radar_mode[i]))]
    ELSE range

\* "uncertainty" in options with type "fixed": self._uncertainty[:] = value
ApplyUncertainty(uncertainty, options) ==
    IF "uncertainty" \in DOMAIN options /\ options.uncertainty.type = "fixed"
    THEN [i \in DOMAIN uncertainty |-> options.uncertainty.value]
    ELSE uncertainty

----------------------------------------------------------------------------
(* The variants' l2_retrack.  The per-waveform loop is a recursion over the *)
(* positions of the index array; its state st holds the output arrays, the  *)
(* waveform power array (the loop of SICCI2TfmraEnvisat writes to it) and   *)
(* how the loop ended: "run", "return" (early return) or "raise".           *)

\* self._range[i] = tfmra_range + offset; self._power[i] = tfmra_power * norm
StoreTrackPoint(st, i, options, norm, tr) ==
    [st EXCEPT !.range[i] = RatAdd(tr.range, options.offset),
               !.power[i] = RatMul(tr.power, norm)]

\* TFMRA.l2_retrack, body of the loop once the waveform is filtered: the
\* early return on a failed first maximum, else the track point with the
\* threshold taken from the options as a number
tfmra_track(st, i, options, f) ==
    IF f.fmi = 0 - 1
    THEN [st EXCEPT !.range[i] = NaN, !.power[i] = NaN, !.stop = "return"]
    ELSE IF options.threshold.type # "float"
    THEN [st EXCEPT !.stop = "raise"]
    ELSE StoreTrackPoint(st, i, options, f.norm,
             get_threshold_range(f.filt_rng, f.filt_wfm, f.fmi,
                                 options.threshold.value))

\* TFMRA.l2_retrack, body of the loop for record i
tfmra_body(st, i, options, l1b) ==
    tfmra_track(st, i, options,
        get_filtered_wfm(l1b.range[i], st.wfm[i], l1b.radar_mode[i], options))

RECURSIVE tfmra_loop(_, _, _, _, _)
tfmra_loop(st, indices, pos, options, l1b) ==
    IF pos > Len(indices) \/ st.stop # "run" THEN st
    ELSE tfmra_loop(tfmra_body(st, indices[pos], options, l1b),
                    indices, pos + 1, options, l1b)

\* cTFMRA.l2_retrack, body of the loop once the waveform is filtered
ctfmra_track(st, i, options, f, tfmra_threshold) ==
    IF f.fmi = 0 - 1
    THEN [st EXCEPT !.range[i] = NaN, !.power[i] = NaN]
    ELSE StoreTrackPoint(st, i, options, f.norm,
             get_threshold_range(f.filt_rng, f.filt_wfm, f.fmi, tfmra_threshold[i]))

\* a loop body that retracks the records marked as invalid too
ctfmra_body_all(st, i, options, l1b, tfmra_threshold) ==
    ctfmra_track(st, i, options,
        c_get_filtered_wfm(l1b.range[i], st.wfm[i], l1b.radar_mode[i], options),
        tfmra_threshold)

\* cTFMRA.l2_retrack, body of the loop for record i
ctfmra_body(st, i, options, l1b, tfmra_threshold) ==
    IF ~l1b.is_valid[i] THEN st
    ELSE ctfmra_track(st, i, options,
             c_get_filtered_wfm(l1b.range[i], st.wfm[i], l1b.radar_mode[i], options),
             tfmra_threshold)

RECURSIVE ctfmra_loop(_, _, _, _, _, _)
ctfmra_loop(st, indices, pos, options, l1b, tfmra_threshold) ==
    IF pos > Len(indices) \/ st.stop # "run" THEN st
    ELSE ctfmra_loop(ctfmra_body(st, indices[pos], options, l1b, tfmra_threshold),
                     indices, pos + 1, options, l1b, tfmra_threshold)

\* wfm_skipped = wfm[i, :]; wfm_skipped[0:5] = 0  (wfm[i, :] is a view of
\* the waveform power array)
RemoveArtifactBins(wfm) ==
    [b \in 1..Len(wfm) |-> IF b <= 5 THEN 0 ELSE wfm[b]]

\* SICCI2TfmraEnvisat.l2_retrack, body of the loop once the waveform is
\* filtered
sicci2_track(st, i, options, f, tfmra_threshold) ==
    IF f.fmi = 0 - 1
    THEN [st EXCEPT !.range[i] = NaN, !.power[i] = NaN, !.stop = "return"]
    ELSE StoreTrackPoint(st, i, options, f.norm,
             sicci2_get_threshold_range(f.filt_rng, f.filt_wfm, f.fmi,
                                        tfmra_threshold[i]))

\* SICCI2TfmraEnvisat.l2_retrack, body of the loop for record i
sicci2_body(st, i, options, l1b, tfmra_threshold) ==
    sicci2_track([st EXCEPT !.wfm[i] = RemoveArtifactBins(@)], i, options,
        get_filtered_wfm(l1b.range[i], RemoveArtifactBins(st.wfm[i]),
                         l1b.radar_mode[i], options),
        tfmra_threshold)

RECURSIVE sicci2_loop(_, _, _, _, _, _)
sicci2_loop(st, indices, pos, options, l1b, tfmra_threshold) ==
    IF pos > Len(indices) \/ st.stop # "run" THEN st
    ELSE sicci2_loop(sicci2_body(st, indices[pos], options, l1b, tfmra_threshold),
                     indices, pos + 1, options, l1b, tfmra_threshold)

LoopStart(ret, l1b) ==
    [range |-> ret.range, power |-> ret.power, wfm |-> l1b.power, stop |-> "run"]

\* what l2_retrack leaves behind: the retracker, the waveform power array
\* and whether an exception left the call
Outcome(ret, wfm, raised) == [ret |-> ret, wfm |-> wfm, raised |-> raised]

\* TFMRA.l2_retrack after the loop: the range bias, unless the loop
\* returned or raised
tfmra_finish(ret, l1b, st) ==
    Outcome([ret EXCEPT !.power = st.power,
                        !.range = IF st.stop = "run"
                                  THEN ApplyRangeBias(st.range, ret.options,
                                                      l1b.radar_mode)
                                  ELSE st.range],
            st.wfm, st.stop = "raise")

\* TFMRA.l2_retrack
tfmra_l2_retrack(ret, l1b, l2, indices) ==
    tfmra_finish(ret, l1b,
                 tfmra_loop(LoopStart(ret, l1b), indices, 1, ret.options, l1b))

\* cTFMRA.l2_retrack after the loop: range bias and uncertainty
ctfmra_finish(ret, l1b, st) ==
    Outcome([ret EXCEPT
                !.range = ApplyRangeBias(st.range, ret.options, l1b.radar_mode),
                !.power = st.power,
                !.uncertainty = ApplyUncertainty(@, ret.options)],
            st.wfm, FALSE)

\* cTFMRA.l2_retrack once the thresholds are there
ctfmra_run(ret, l1b, indices, tfmra_threshold) ==
    ctfmra_finish(
        register_auxdata_output(ret, "tfmrathr", "tfmra_threshold", tfmra_threshold),
        l1b,
        ctfmra_loop(LoopStart(ret, l1b), indices, 1, ret.options, l1b,
                    tfmra_threshold))

\* a cTFMRA.l2_retrack that looks at the threshold type only after the loop
\* has run with a threshold of 1/2
ctfmra_l2_retrack_late(ret, l1b, l2, indices) ==
    IF ThresholdRaises(ret.options.threshold)
    THEN Outcome(ctfmra_run(ret, l1b, indices,
                            [i \in DOMAIN l1b.power |-> Rat(1, 2)]).ret,
                 l1b.power, TRUE)
    ELSE ctfmra_run(ret, l1b, indices,
                    c_get_tfmra_threshold(ret.options, l1b, l2, indices))

\* cTFMRA.l2_retrack
ctfmra_l2_retrack(ret, l1b, l2, indices) ==
    IF ThresholdRaises(ret.options.threshold) THEN Outcome(ret, l1b.power, TRUE)
    ELSE ctfmra_run(ret, l1b, indices,
                    c_get_tfmra_threshold(ret.options, l1b, l2, indices))

\* SICCI2TfmraEnvisat.l2_retrack after the loop: the uncertainty, unless
\* the loop returned
sicci2_finish(ret, st) ==
    Outcome([ret EXCEPT !.range = st.range,
                        !.power = st.power,
                        !.uncertainty = IF st.stop = "run"
                                        THEN ApplyUncertainty(@, ret.options)
                                        ELSE @],
            st.wfm, FALSE)

\* SICCI2TfmraEnvisat.l2_retrack
sicci2_l2_retrack(ret, l1b, l2, indices) ==
    IF ThresholdRaises(ret.options.threshold) THEN Outcome(ret, l1b.power, TRUE)
    ELSE sicci2_finish(ret,
             sicci2_loop(LoopStart(ret, l1b), indices, 1, ret.options, l1b,
                         sicci2_get_tfmra_threshold(ret.options, l1b, l2, indices)))

\* the l2_retrack of the retracker's class
l2_retrack(ret, l1b, l2, indices) ==
    CASE ret.pyclass = "TFMRA"  -> tfmra_l2_retrack(ret, l1b, l2, indices)
      [] ret.pyclass = "cTFMRA" -> ctfmra_l2_retrack(ret, l1b, l2, indices)
      [] ret.pyclass = "SICCI2TfmraEnvisat" -> sicci2_l2_retrack(ret, l1b, l2, indices)

\* if self._indices is None: self._indices = np.arange(l1b.n_records)
DefaultIndices(ret, n_records) ==
    IF ret.indices.none
    THEN [ret EXCEPT !.indices = [none |-> FALSE,
                                  idx |-> [p \in 1..n_records |-> p - 1]]]
    ELSE ret

\* the outcome of l2_retrack with the value retrack() returns
Returned(o, value) ==
    [ret |-> o.ret, wfm |-> o.wfm, raised |-> o.raised, value |-> value]

\* a retrack that calls l2_retrack also for an empty index array
retrack_indices_always(ret, l1b, l2) ==
    Returned(l2_retrack(ret, l1b, l2, ret.indices.idx), TRUE)

\* BaseRetracker.retrack after the default arrays and indices are set
retrack_indices(ret, l1b, l2) ==
    IF Len(ret.indices.idx) = 0
    THEN Returned(Outcome(ret, l1b.power, FALSE), FALSE)
    ELSE Returned(l2_retrack(ret, l1b, l2, ret.indices.idx), TRUE)

\* BaseRetracker.retrack: the outcome plus the returned value
retrack(ret, l1b, l2) ==
    retrack_indices(
        DefaultIndices(create_default_properties(ret, Cardinality(DOMAIN l1b.power)),
                       Cardinality(DOMAIN l1b.power)),
        l1b, l2)

\* What SICCIOcog computes for one record.  ocog_func takes a square root and
\* ocog_tail_shape slices with a float and fits a line, so the values are not
\* rational and the tail shape depends on the numpy in use; a record ends as
\*   "valid"    a range was interpolated and every filter condition holds,
\*   "filtered" a range was interpolated and a filter condition fails,
\*   "failed"   interp1d raised ValueError: range, retracked bin and tail
\*              shape stay NaN, so the filter conditions fail.
OcogResults == {"valid", "filtered", "failed"}

\* SICCIOcog._sicci_ice_retracker: interp1d of the range window at the
\* retracked bin, a point between two bins (taken in the middle of the window)
sicci_ice_retracker(ret, l1b, indices, res) ==
    [ret EXCEPT !.range =
        [i \in DOMAIN @ |->
            IF (\E p \in DOMAIN indices : indices[p] = i) /\ res[i] # "failed"
            THEN RatDiv(RatInt(l1b.range[i][Len(l1b.range[i]) \div 2]
                               + l1b.range[i][Len(l1b.range[i]) \div 2 + 1]),
                        RatInt(2))
            ELSE @[i]]]

\* SICCIOcog._filter_results: error_flag[indices] = not valid.flag[indices]
filter_results(ret, indices, res) ==
    [ret EXCEPT !.flag =
        [i \in DOMAIN @ |-> IF (\E p \in DOMAIN indices : indices[p] = i) THEN res[i] # "valid" ELSE @[i]]]

\* SICCIOcog.l2_retrack
sicci_ocog_l2_retrack(ret, l1b, indices, res) ==
    IF ret.options.filter.use_filter
    THEN filter_results(sicci_ice_retracker(ret, l1b, indices, res), indices, res)
    ELSE sicci_ice_retracker(ret, l1b, indices, res)

\* BaseRetracker.retrack of a SICCIOcog instance: every result the records
\* in scope can get, or the ValueError of ocog_func for a waveform without a
\* sample above its threshold
sicci_ocog_retrack(ret, l1b) ==
    IF Len(ret.indices.idx) = 0
    THEN {Returned(Outcome(ret, l1b.power, FALSE), FALSE)}
    ELSE {Returned(Outcome(sicci_ocog_l2_retrack(ret, l1b, ret.indices.idx, res),
                           l1b.power, FALSE), TRUE) :
             res \in [DOMAIN l1b.power -> OcogResults]}
         \cup {Returned(Outcome(ret, l1b.power, TRUE), FALSE)}

\* retracker.retrack(l1b, l2) for the class at hand: the outcomes it can have
retrack_outcomes(ret, l1b, l2) ==
    IF ret.pyclass \in FilterClasses
    THEN sicci_ocog_retrack(
             DefaultIndices(create_default_properties(ret, Cardinality(DOMAIN l1b.power)),
                            Cardinality(DOMAIN l1b.power)),
             l1b)
    ELSE {retrack(ret, l1b, l2)}

----------------------------------------------------------------------------
(* Level-2 data object *)

\* SurfaceType.get_by_name(name): the flag container of the records whose
\* surface type is name (indices in increasing order; num is their number)
get_by_name(surface_type, name) ==
    LET idx == SortedSeq({i \in DOMAIN surface_type : surface_type[i] = name})
    IN  [indices |-> idx, num |-> Len(idx)]

\* SurfaceType.add_flag(flag, name): the records where flag is set get the
\* surface type name
add_flag(surface_type, flag, name) ==
    [i \in DOMAIN surface_type |-> IF flag[i] THEN name ELSE surface_type[i]]

\* FlagContainer(flag).num
FlagNum(flag) == Cardinality({i \in DOMAIN flag : flag[i]})

\* an update that writes every record
UpdateAllRecords(ret) == DOMAIN ret.range

\* ii = retracker.indices: the indices update_retracked_range writes
UpdateIndices(ret) == {ret.indices.idx[p] : p \in 1..Len(ret.indices.idx)}

\* Level2Data.update_retracked_range, the auxiliary data of one entry of
\* retracker.auxdata_output: a new variable takes the whole array, a known
\* one is updated at ii
\* a transfer that replaces the whole array of a variable that exists already
MergeAuxEntryOverwrite(aux, entry, ii) ==
    IF entry.var_name \notin {aux[v].var_name : v \in DOMAIN aux}
    THEN (entry.var_id :> [var_name |-> entry.var_name, value |-> entry.value]) @@ aux
    ELSE [aux EXCEPT ![entry.var_id].value = entry.value]

MergeAuxEntry(aux, entry, ii) ==
    IF entry.var_name \notin {aux[v].var_name : v \in DOMAIN aux}
    THEN (entry.var_id :> [var_name |-> entry.var_name, value |-> entry.value]) @@ aux
    ELSE [aux EXCEPT ![entry.var_id].value =
             [i \in DOMAIN @ |-> IF i \in ii THEN entry.value[i] ELSE @[i]]]

RECURSIVE MergeAux(_, _, _, _)
MergeAux(aux, entries, pos, ii) ==
    IF pos > Len(entries) THEN aux
    ELSE MergeAux(MergeAuxEntry(aux, entries[pos], ii), entries, pos + 1, ii)

\* an update that derives the elevation but leaves its uncertainty alone
update_retracked_range_no_elev_unc(l2d, ret) ==
    LET ii == UpdateIndices(ret)
        upd(old, new) == [i \in DOMAIN old |-> IF i \in ii THEN new[i] ELSE old[i]]
    IN  [l2d EXCEPT
            !.range            = upd(@, ret.range),
            !.range_uncertainty = upd(@, ret.uncertainty),
            !.elev             = upd(@, [i \in DOMAIN ret.range |->
                                            RatSub(l2d.altitude[i], ret.range[i])]),
            !.aux              = MergeAux(@, ret.auxdata_output, 1, ii)]

\* Level2Data.update_retracked_range
update_retracked_range(l2d, ret) ==
    LET ii == UpdateIndices(ret)
        upd(old, new) == [i \in DOMAIN old |-> IF i \in ii THEN new[i] ELSE old[i]]
    IN  [l2d EXCEPT
            !.range            = upd(@, ret.range),
            !.range_uncertainty = upd(@, ret.uncertainty),
            !.elev             = upd(@, [i \in DOMAIN ret.range |->
                                            RatSub(l2d.altitude[i], ret.range[i])]),
            !.elev_uncertainty = upd(@, ret.uncertainty),
            !.aux              = MergeAux(@, ret.auxdata_output, 1, ii)]

----------------------------------------------------------------------------
(* Inputs *)

NRecords == 2

Records == 0..(NRecords - 1)

\* echo power of one record (8 range bins): a single peak on a rising edge,
\* no echo, a NaN record, a peak in the first bin, two peaks of which the
\* first qualifies, a plateau and a ripple on the leading edge
WfmSinglePeak == <<0, 0, 0, 0, 1, 4, 8, 2>>
WfmAllZero == <<0, 0, 0, 0, 0, 0, 0, 0>>
WfmAllNaN == <<NaNv, NaNv, NaNv, NaNv, NaNv, NaNv, NaNv, NaNv>>
WfmDecay == <<9, 5, 2, 1, 0, 0, 0, 0>>
WfmTwoPeaks == <<0, 0, 1, 5, 2, 4, 9, 3>>
WfmEarlyPeak == <<1, 6, 1, 0, 2, 7, 9, 4>>

WfmCatalog == {WfmSinglePeak, WfmAllZero, WfmAllNaN, WfmDecay, WfmTwoPeaks,
               WfmEarlyPeak}

\* the waveforms of the dispatcher runs
WfmDispatch == {WfmSinglePeak, WfmAllZero}

\* range window of record i: bins one unit apart, starting at 10*i
RangeWindow(i, n_bins) == [b \in 1..n_bins |-> 10 * i + b - 1]

BaseOptions ==
    [offset |-> Rat(1, 4),
     wfm_oversampling_factor |-> 2,
     wfm_oversampling_method |-> "linear",
     wfm_smoothing_window_size |-> <<3, 3, 5>>,
     first_maximum_normalized_threshold |->
         <<Rat(15, 100), Rat(15, 100), Rat(45, 100)>>]

RangeBias == [range_bias |-> <<Rat(1, 10), Rat(2, 10), Rat(3, 10)>>]

FixedUncertainty == [uncertainty |-> [type |-> "fixed", value |-> Rat(1, 10)]]

\* threshold given as a float, with a radar mode dependent range bias and a
\* fixed uncertainty
OptFloat == [threshold |-> [type |-> "float", value |-> Rat(1, 2)]]
               @@ RangeBias @@ FixedUncertainty @@ BaseOptions

OptFixed == [threshold |-> [type |-> "fixed", value |-> Rat(1, 2)]]
               @@ RangeBias @@ FixedUncertainty @@ BaseOptions

OptSitype == [threshold |-> [type |-> "sitype_sigma_func",
                             coef_fyi |-> <<Rat(1, 4), Rat(1, 8)>>,
                             coef_myi |-> <<Rat(3, 4), Rat(0 - 1, 16)>>]]
               @@ FixedUncertainty @@ BaseOptions

OptPlane == [threshold |-> [type |-> "poly_plane_fit", intercept |-> Rat(1, 4),
                            coef_lew |-> <<Rat(1, 8)>>,
                            coef_sig0 |-> <<Rat(1, 16), Rat(1, 32)>>]]
               @@ BaseOptions

OptUnknownType == [threshold |-> [type |-> "no_such_type"]] @@ BaseOptions

\* SICCIOcog with its result filter switched on
OptOcog == [filter |-> [use_filter |-> TRUE]]

\* the (pyclass, options) definitions of the processor settings
RetrackerDefs ==
    {[pyclass |-> "cTFMRA", options |-> OptFixed],
     [pyclass |-> "TFMRA", options |-> OptFloat],
     [pyclass |-> "SICCI2TfmraEnvisat", options |-> OptSitype],
     [pyclass |-> "cTFMRA", options |-> OptUnknownType],
     [pyclass |-> "SICCI2TfmraEnvisat", options |-> OptUnknownType],
     [pyclass |-> "SICCIOcog", options |-> OptOcog],
     [pyclass |-> "NoSuchRetracker", options |-> OptFloat]}

\* the configured surface types, in the order of the settings file
ConfiguredSurfaceTypes == <<"lead", "sea_ice">>

SurfaceTypes == {"lead", "sea_ice", "ocean"}

\* is_valid arrays: every waveform valid, or the first one marked invalid
ValidFlags ==
    {[i \in Records |-> i # bad] : bad \in {0 - 1, 0}}

ClassifierData ==
    [sigma0 |-> [i \in Records |-> RatInt(i + 1)],
     leading_edge_width |-> [i \in Records |-> RatInt(1)],
     leading_edge_width_first_half  |-> [i \in Records |-> Rat(1, 2)],
     leading_edge_width_second_half |-> [i \in Records |-> Rat(1, 2)]]

\* Level-1 data: waveform group and classifiers
L1bData(power, mode, valid) ==
    [power      |-> power,
     range      |-> [i \in Records |-> RangeWindow(i, Len(power[i]))],
     radar_mode |-> [i \in Records |-> mode],
     is_valid   |-> valid,
     classifier |-> ClassifierData]

\* a new Level-2 data object: data arrays NaN, uncertainties zero
L2Data(surface_type) ==
    [range             |-> [i \in Records |-> NaN],
     range_uncertainty |-> [i \in Records |-> RatInt(0)],
     elev              |-> [i \in Records |-> NaN],
     elev_uncertainty  |-> [i \in Records |-> RatInt(0)],
     altitude          |-> [i \in Records |-> RatInt(100 + i)],
     sitype            |-> [i \in Records |-> Rat(6 - (i % 3), 10)],
     surface_type      |-> surface_type,
     radar_mode        |-> [i \in Records |-> NaNv],
     aux               |-> << >>]

----------------------------------------------------------------------------
(* State *)

VARIABLES
    l1b,        \* Level-1 data object: waveforms and classifiers
    l2,         \* Level-2 data object
    cfg,        \* cfg.options: sequence of [surface_type, retracker_def]
    retracker,  \* the retracker instance in use
    pc,         \* position of the dispatcher / of the caller of the retracker
    cur,        \* position in cfg of the surface type being processed
    retval,     \* what the last retrack() call returned: "None", "True", "False"
    writers,    \* per record, the surface types whose merge has written it
    log         \* the steps taken so far; a retrack step comes with the
                \* output arrays the instance held when retrack() was called

vars == <<l1b, l2, cfg, retracker, pc, cur, retval, writers, log>>

\* an entry of log for a step at position at of the configuration
Step(name, at) == [step |-> name, at |-> at]

\* the entry of log for a retrack() call
MergeStep(ret, at) ==
    [step |-> "merge", at |-> at, flag |-> ret.flag,
     indices |-> ret.indices.idx, aux |-> ret.auxdata_output]

RetrackStep(ret, at) ==
    [step |-> "retrack", at |-> at, range |-> ret.range, power |-> ret.power]

NoRetracker == NewRetracker("None")

----------------------------------------------------------------------------
(* Level2RetrackerContainer.execute_procstep *)

\* a lookup that falls back to cTFMRA for a name that is no class
get_retracker_class_fallback(name) ==
    [raised |-> FALSE,
     ret    |-> NewRetracker(IF name \in RetrackerClasses \cup FilterClasses
                             THEN name ELSE "cTFMRA")]

\* get_retracker_class(name): globals()[name]() is a new instance of the
\* class, or raises KeyError for a name that is no class of the module
get_retracker_class(name) ==
    IF name \in RetrackerClasses \cup FilterClasses
    THEN [raised |-> FALSE, ret |-> NewRetracker(name)]
    ELSE [raised |-> TRUE, ret |-> NoRetracker]

Init ==
    /\ \E power \in [Records -> WfmDispatch], mode \in {1, 2},
          st \in [Records -> SurfaceTypes] :
          /\ l1b = L1bData(power, mode, [i \in Records |-> TRUE])
          /\ l2 = L2Data(st)
    /\ \E d1 \in RetrackerDefs, d2 \in RetrackerDefs :
          cfg = <<[surface_type |-> ConfiguredSurfaceTypes[1], retracker_def |-> d1],
                  [surface_type |-> ConfiguredSurfaceTypes[2], retracker_def |-> d2]>>
    /\ retracker = NoRetracker
    /\ pc = "idle"
    /\ cur = 0
    /\ retval = "None"
    /\ writers = [i \in Records |-> {}]
    /\ log = << >>

\* entry of execute_procstep: the error status is created, the loop starts
Start ==
    /\ pc = "idle"
    /\ pc' = "selecting"
    /\ cur' = 1
    /\ UNCHANGED <<l1b, l2, cfg, retracker, retval, writers, log>>

\* a return from the loop that does not wait for its end
FinishAnytime ==
    /\ pc = "selecting"
    /\ pc' = "done"
    /\ UNCHANGED <<l1b, l2, cfg, retracker, cur, retval, writers, log>>

\* head of the loop with no surface type left: return error_status
Finish ==
    /\ pc = "selecting"
    /\ cur > Len(cfg)
    /\ pc' = "done"
    /\ UNCHANGED <<l1b, l2, cfg, retracker, cur, retval, writers, log>>

\* a surface type without records that ends the dispatch with an error
SkipRaises ==
    /\ pc = "selecting"
    /\ cur <= Len(cfg)
    /\ get_by_name(l2.surface_type, cfg[cur].surface_type).num = 0
    /\ pc' = "error"
    /\ UNCHANGED <<l1b, l2, cfg, retracker, cur, retval, writers, log>>

\* surface_type_flag.num == 0: log and continue with the next surface type
Skip ==
    /\ pc = "selecting"
    /\ cur <= Len(cfg)
    /\ get_by_name(l2.surface_type, cfg[cur].surface_type).num = 0
    /\ cur' = cur + 1
    /\ log' = Append(log, Step("skip", cur))
    /\ UNCHANGED <<l1b, l2, cfg, retracker, pc, retval, writers>>

\* there are waveforms of the surface type
Select ==
    /\ pc = "selecting"
    /\ cur <= Len(cfg)
    /\ get_by_name(l2.surface_type, cfg[cur].surface_type).num # 0
    /\ pc' = "configuring"
    /\ log' = Append(log, Step("select", cur))
    /\ UNCHANGED <<l1b, l2, cfg, retracker, cur, retval, writers>>

\* get_retracker_class raises: the error leaves execute_procstep
ConfigureFail ==
    /\ pc = "configuring"
    /\ get_retracker_class(cfg[cur].retracker_def.pyclass).raised
    /\ pc' = "error"
    /\ UNCHANGED <<l1b, l2, cfg, retracker, cur, retval, writers, log>>

\* get_retracker_class, set_options, set_indices, set_classifier
Configure ==
    /\ pc = "configuring"
    /\ ~get_retracker_class(cfg[cur].retracker_def.pyclass).raised
    /\ retracker' =
          set_classifier(
            set_indices(
              set_options(get_retracker_class(cfg[cur].retracker_def.pyclass).ret,
                          cfg[cur].retracker_def.options),
              get_by_name(l2.surface_type, cfg[cur].surface_type).indices))
    /\ pc' = "retracking"
    /\ log' = Append(log, Step("configure", cur))
    /\ UNCHANGED <<l1b, l2, cfg, cur, retval, writers>>

\* retracker.retrack(l1b, l2)
RetrackReturns(o) ==
    /\ retracker' = o.ret
    /\ l1b' = [l1b EXCEPT !.power = o.wfm]
    /\ pc' = IF o.raised THEN "error" ELSE "merging"
    /\ retval' = IF o.raised THEN "None" ELSE IF o.value THEN "True" ELSE "False"

Retrack ==
    /\ pc = "retracking"
    /\ \E o \in retrack_outcomes(retracker, l1b, l2) : RetrackReturns(o)
    /\ log' = Append(log, RetrackStep(retracker, cur))
    /\ UNCHANGED <<l2, cfg, cur, writers>>

\* an error flag that reaches the surface type only when it marks more than
\* one record
merge_error_flag_many(surface_type, ret) ==
    IF FlagNum(ret.flag) > 1
    THEN add_flag(surface_type, ret.flag, "invalid")
    ELSE surface_type

\* if retracker.error_flag.num > 0: l2.surface_type.add_flag(flag, "invalid")
merge_error_flag(surface_type, ret) ==
    IF FlagNum(ret.flag) > 0
    THEN add_flag(surface_type, ret.flag, "invalid")
    ELSE surface_type

\* update_retracked_range, radar mode, error flag to the surface type
Merge ==
    /\ pc = "merging"
    /\ l2' = [update_retracked_range(l2, retracker) EXCEPT
                 !.radar_mode = l1b.radar_mode,
                 !.surface_type = merge_error_flag(@, retracker)]
    /\ writers' = [i \in Records |->
                      IF i \in UpdateIndices(retracker)
                      THEN writers[i] \cup {cfg[cur].surface_type}
                      ELSE writers[i]]
    /\ cur' = cur + 1
    /\ pc' = "selecting"
    /\ log' = Append(log, MergeStep(retracker, cur))
    /\ UNCHANGED <<l1b, cfg, retracker, retval>>

Next ==
    \/ Start
    \/ Finish
    \/ Skip
    \/ Select
    \/ ConfigureFail
    \/ Configure
    \/ Retrack
    \/ Merge

Spec == Init /\ [][Next]_vars

----------------------------------------------------------------------------
(* A caller that uses one retracker instance directly: set_options,         *)
(* set_indices, retrack                                                     *)

RetrackOptions == {OptFloat, OptFixed, OptSitype, OptUnknownType}

\* index arrays: the subsets of the records in increasing order
IndexArrays == {SortedSeq(S) : S \in SUBSET Records}

RInit ==
    /\ \E power \in [Records -> WfmCatalog], mode \in {1, 2}, valid \in ValidFlags :
          l1b = L1bData(power, mode, valid)
    /\ l2 = L2Data([i \in Records |-> "sea_ice"])
    /\ \E c \in RetrackerClasses : retracker = get_retracker_class(c).ret
    /\ cfg = << >>
    /\ pc = "new"
    /\ cur = 0
    /\ retval = "None"
    /\ writers = [i \in Records |-> {}]
    /\ log = << >>

RSetOptions ==
    /\ pc = "new"
    /\ \E o \in RetrackOptions : retracker' = set_classifier(set_options(retracker, o))
    /\ pc' = "options"
    /\ UNCHANGED <<l1b, l2, cfg, cur, retval, writers, log>>

RSetIndices ==
    /\ pc = "options"
    /\ \E idx \in IndexArrays : retracker' = set_indices(retracker, idx)
    /\ pc' = "indices"
    /\ UNCHANGED <<l1b, l2, cfg, cur, retval, writers, log>>

RRetrackReturns(o) ==
    /\ retracker' = o.ret
    /\ l1b' = [l1b EXCEPT !.power = o.wfm]
    /\ pc' = IF o.raised THEN "raised" ELSE "returned"
    /\ retval' = IF o.raised THEN "None" ELSE IF o.value THEN "True" ELSE "False"

\* retracker.retrack(l1b, l2), with or without set_indices before it
RRetrack ==
    /\ pc \in {"options", "indices"}
    /\ RRetrackReturns(retrack(retracker, l1b, l2))
    /\ log' = Append(log, RetrackStep(retracker, cur))
    /\ UNCHANGED <<l2, cfg, cur, writers>>

RNext ==
    \/ RSetOptions
    \/ RSetIndices
    \/ RRetrack

SpecRetrack == RInit /\ [][RNext]_vars

----------------------------------------------------------------------------
(* A caller that keeps the instance and retracks again for another index    *)
(* set, up to MaxCalls retrack() calls                                      *)

MaxCalls == 2

\* the number of retrack() calls made so far
Calls == Cardinality({e \in DOMAIN log : log[e].step = "retrack"})

ReuseInit ==
    /\ \E power \in [Records -> WfmDispatch] :
          l1b = L1bData(power, 1, [i \in Records |-> TRUE])
    /\ l2 = L2Data([i \in Records |-> "sea_ice"])
    /\ \E c \in RetrackerClasses : retracker = get_retracker_class(c).ret
    /\ cfg = << >>
    /\ pc = "new"
    /\ cur = 0
    /\ retval = "None"
    /\ writers = [i \in Records |-> {}]
    /\ log = << >>

\* set_indices on an instance that has retracked before
RSetIndicesAgain ==
    /\ pc = "returned"
    /\ Calls < MaxCalls
    /\ \E idx \in IndexArrays : retracker' = set_indices(retracker, idx)
    /\ pc' = "indices"
    /\ UNCHANGED <<l1b, l2, cfg, cur, retval, writers, log>>

ReuseNext ==
    \/ RSetOptions
    \/ RSetIndices
    \/ RRetrack
    \/ RSetIndicesAgain

SpecReuse == ReuseInit /\ [][ReuseNext]_vars

----------------------------------------------------------------------------
(* Properties of retrack(), stated on the caller of one retracker instance  *)
(* (SpecRetrack)                                                            *)

\* ---------------------------------------------------------------------
\* L1bWaveforms: the container of the waveform arrays
\* ---------------------------------------------------------------------

\* a numpy array as far as set_waveform_data looks at it: its shape, and a
\* tag that tells two arrays of the same shape apart
ArrayShapes ==
    {<<NRecords>>, <<NRecords, NRecords>>, <<NRecords, NRecords + 1>>,
     <<NRecords + 1, NRecords>>, <<NRecords, NRecords, NRecords>>}

Arrays == [shape : ArrayShapes, data : {"a", "b"}]

\* values passed as radar_mode: strings, valid or not, and a non-string
RadarModeInputs ==
    [is_str : {TRUE}, value : {"lrm", "sar", "sin", "plrm"}]
        \cup [is_str : {FALSE}, value : {"1"}]

\* L1bWaveforms._valid_radar_modes
valid_radar_modes == {"lrm", "sar", "sin"}

\* L1bWaveforms.__init__ with a fresh metadata object (n_records = -1)
L1bWaveforms ==
    [n_records  |-> 0 - 1,
     power      |-> [none |-> TRUE],
     range      |-> [none |-> TRUE],
     radar_mode |-> [none |-> TRUE],
     is_valid   |-> [none |-> TRUE]]

Stored(array) == [none |-> FALSE, shape |-> array.shape, data |-> array.data]

WfmResult(wfm, error) == [wfm |-> wfm, error |-> error]

\* L1bMetaData.check_n_records: TRUE when it raises
check_n_records_raises(wfm, n_records) ==
    wfm.n_records # 0 - 1 /\ n_records # wfm.n_records

\* set_waveform_data from the radar mode check on: power and range are
\* already assigned when it runs
set_radar_mode(wfm, radar_mode) ==
    IF radar_mode.is_str /\ radar_mode.value \in valid_radar_modes
    THEN WfmResult(
            [wfm EXCEPT
                !.radar_mode = [none |-> FALSE,
                                value |-> [i \in 0..(wfm.power.shape[1] - 1) |->
                                              radar_mode.value]],
                !.is_valid = IF @.none
                             THEN [none |-> FALSE,
                                   value |-> [i \in 0..(wfm.power.shape[1] - 1) |->
                                                 TRUE]]
                             ELSE @],
            "")
    ELSE WfmResult(wfm, "Invalid radar_mode: ")

\* L1bWaveforms.set_waveform_data(power, range, radar_mode)
set_waveform_data(wfm, power, range, radar_mode) ==
    IF power.shape # range.shape
    THEN WfmResult(wfm, "power and range must be of same shape")
    ELSE IF Len(power.shape) # 2
    THEN WfmResult(wfm, "power and range arrays must be of dimension (n_records, n_bins)")
    ELSE IF check_n_records_raises(wfm, power.shape[1])
    THEN WfmResult(wfm, "n_records mismatch, len must be: ")
    ELSE set_radar_mode([wfm EXCEPT !.n_records = power.shape[1],
                                    !.power     = Stored(power),
                                    !.range     = Stored(range)],
                        radar_mode)

\* a caller builds the container and sets waveform data, again after an error
WInit ==
    /\ l1b = L1bWaveforms
    /\ l2 = L2Data([i \in Records |-> "ocean"])
    /\ cfg = << >>
    /\ retracker = NoRetracker
    /\ pc = "empty"
    /\ cur = 0
    /\ retval = ""
    /\ writers = [i \in Records |-> {}]
    /\ log = << >>

SetWaveformDataReturns(r) ==
    /\ l1b' = r.wfm
    /\ pc' = IF r.error = "" THEN "set" ELSE "raised"
    /\ retval' = r.error

SetWaveformData ==
    /\ pc \in {"empty", "set", "raised"}
    /\ \E power \in Arrays, range \in Arrays, radar_mode \in RadarModeInputs :
          SetWaveformDataReturns(set_waveform_data(l1b, power, range, radar_mode))
    /\ UNCHANGED <<l2, cfg, retracker, cur, writers, log>>

WNext == SetWaveformData

SpecWaveforms == WInit /\ [][WNext]_vars


\* ---------------------------------------------------------------------
\* The peak finder and the crossing interpolator on a filtered waveform
\* ---------------------------------------------------------------------

KernelBins == 5

\* filtered, normalized waveforms: power in thirds, the maximum is 1
KernelWaveforms ==
    {w \in [1..KernelBins -> 0..3] : \E j \in 1..KernelBins : w[j] = 3}

KernelPower(w) == [j \in 1..KernelBins |-> Rat(w[j], 3)]

\* range of the filtered bins, increasing
KernelRange == [j \in 1..KernelBins |-> RatInt(10 + j)]

\* fmnt[radar_mode] + noise_level
PeakMinimumPowers == {Rat(1, 2), Rat(5, 6)}

\* threshold fractions
KernelThresholds == {Rat(1, 4), Rat(1, 2), Rat(3, 4)}

\* self.get_first_maximum_index of the class
first_maximum_index_of(pyclass, wfm, peak_minimum_power) ==
    IF pyclass = "cTFMRA"
    THEN c_get_first_maximum_index(wfm, peak_minimum_power)
    ELSE get_first_maximum_index(wfm, peak_minimum_power)

\* self.get_threshold_range of the class
threshold_range_of(pyclass, rng, wfm, first_maximum_index, threshold) ==
    IF pyclass = "SICCI2TfmraEnvisat"
    THEN sicci2_get_threshold_range(rng, wfm, first_maximum_index, threshold)
    ELSE get_threshold_range(rng, wfm, first_maximum_index, threshold)

MaxCrossings == 2

CrossingStep(threshold, r) ==
    [step |-> "get_threshold_range", threshold |-> threshold,
     range |-> r.range, power |-> r.power]

\* one filtered waveform in the hands of one retracker class
KInit ==
    /\ \E w \in KernelWaveforms : l1b = [rng |-> KernelRange, wfm |-> KernelPower(w)]
    /\ \E c \in RetrackerClasses, pmp \in PeakMinimumPowers :
          cfg = [pyclass |-> c, peak_minimum_power |-> pmp]
    /\ l2 = << >>
    /\ retracker = NoRetracker
    /\ pc = "filtered"
    /\ cur = 0 - 1
    /\ retval = "None"
    /\ writers = [i \in Records |-> {}]
    /\ log = << >>

\* fmi = self.get_first_maximum_index(filt_wfm, peak_minimum_power)
KFirstMaximum ==
    /\ pc = "filtered"
    /\ cur' = first_maximum_index_of(cfg.pyclass, l1b.wfm, cfg.peak_minimum_power)
    /\ pc' = "peak"
    /\ UNCHANGED <<l1b, l2, cfg, retracker, retval, writers, log>>

\* self.get_threshold_range(filt_rng, filt_wfm, fmi, threshold), which the
\* callers reach only with fmi # -1; called again with a higher threshold
KThresholdRange ==
    /\ pc \in {"peak", "crossing"}
    /\ cur # 0 - 1
    /\ Len(log) < MaxCrossings
    /\ \E t \in KernelThresholds :
          /\ \A e \in DOMAIN log : RatLt(log[e].threshold, t)
          /\ log' = Append(log, CrossingStep(t,
                        threshold_range_of(cfg.pyclass, l1b.rng, l1b.wfm, cur, t)))
    /\ pc' = "crossing"
    /\ UNCHANGED <<l1b, l2, cfg, retracker, cur, retval, writers>>

KNext == KFirstMaximum \/ KThresholdRange

SpecKernel == KInit /\ [][KNext]_vars


\* ---------------------------------------------------------------------
\* The noise floor of get_filtered_wfm
\* ---------------------------------------------------------------------

\* echoes with a constant power c in their first six bins, enough to cover
\* the first 5 * wfm_oversampling_factor oversampled bins, then a peak
NoiseWaveforms ==
    {<<c, c, c, c, c, c, a, b>> : c \in 0..3, a \in 4..8, b \in 0..4}

\* one echo in the hands of the reference or the optimized variant
NInit ==
    /\ \E w \in NoiseWaveforms, mode \in {1, 2} :
          l1b = [range |-> RangeWindow(0, Len(w)), power |-> w, radar_mode |-> mode]
    /\ \E c \in {"TFMRA", "cTFMRA"} : cfg = [pyclass |-> c, options |-> BaseOptions]
    /\ l2 = << >>
    /\ retracker = NoRetracker
    /\ pc = "echo"
    /\ cur = 0
    /\ retval = "None"
    /\ writers = [i \in Records |-> {}]
    /\ log = << >>

\* self.get_filtered_wfm of the class
filtered_wfm_of(pyclass, rng, wfm, radar_mode, opt) ==
    IF pyclass = "cTFMRA" THEN c_get_filtered_wfm(rng, wfm, radar_mode, opt)
    ELSE get_filtered_wfm(rng, wfm, radar_mode, opt)

\* the result of get_filtered_wfm together with the noise level it used
WithNoiseLevel(f, oversampling) ==
    [filt_wfm |-> f.filt_wfm, fmi |-> f.fmi, norm |-> f.norm,
     noise_level |-> wfm_get_noise_level(f.filt_wfm, oversampling)]

\* filt_rng, filt_wfm, fmi, norm = self.get_filtered_wfm(rng, wfm, radar_mode)
NFilter ==
    /\ pc = "echo"
    /\ retracker' = WithNoiseLevel(
                        filtered_wfm_of(cfg.pyclass, l1b.range, l1b.power,
                                        l1b.radar_mode, cfg.options),
                        cfg.options.wfm_oversampling_factor)
    /\ pc' = "filtered"
    /\ UNCHANGED <<l1b, l2, cfg, cur, retval, writers, log>>

NNext == NFilter

SpecNoise == NInit /\ [][NNext]_vars


\* ---------------------------------------------------------------------
\* Level1bData.trim_to_subset
\* ---------------------------------------------------------------------

\* data[subset_list]: numpy indexing of an array with a list of 0-based
\* indices (arrays are sequences, one entry per record)
TakeSubset(data, subset_list) ==
    [p \in 1..Len(subset_list) |-> data[subset_list[p] + 1]]

\* a parameter array of n records, tagged so that no two parameters agree
ParameterArray(tag, n) == [r \in 1..n |-> <<tag, r - 1>>]

\* a Level-1b data object of n records with the given range corrections and
\* classifiers
Level1bData(n, corrections, classifiers) ==
    [info       |-> [n_records |-> n, is_orbit_subset |-> FALSE],
     time_orbit |-> [p \in {"timestamp", "longitude", "latitude", "altitude"} |->
                        ParameterArray(p, n)],
     correction |-> [p \in corrections |-> ParameterArray(p, n)],
     classifier |-> [p \in classifiers |-> ParameterArray(p, n)],
     waveform   |-> [p \in {"power", "range", "radar_mode", "is_valid"} |->
                        ParameterArray(p, n)]]

\* L1bTimeOrbit.set_subset
time_orbit_set_subset(time_orbit, subset_list) ==
    [p \in DOMAIN time_orbit |-> TakeSubset(time_orbit[p], subset_list)]

\* L1bRangeCorrections.set_subset: data = data[subset_list] binds the local
\* name only
correction_set_subset(correction, subset_list) == correction

\* L1bClassifiers.set_subset: data = data[subset_list] binds the local name
\* only
classifier_set_subset(classifier, subset_list) == classifier

\* L1bWaveforms.set_subset
waveform_set_subset(waveform, subset_list) ==
    [p \in DOMAIN waveform |-> TakeSubset(waveform[p], subset_list)]

\* the loop over the data groups in Level1bData.trim_to_subset
set_subsets(l1, subset_list) ==
    [l1 EXCEPT !.time_orbit = time_orbit_set_subset(@, subset_list),
               !.correction = correction_set_subset(@, subset_list),
               !.classifier = classifier_set_subset(@, subset_list),
               !.waveform   = waveform_set_subset(@, subset_list)]

\* Level1bData.trim_to_subset; update_data_limit_attributes raises on an
\* empty time_orbit (np.nanmin of an empty array), after the data groups
\* were trimmed and before the metadata is set
trim_to_subset(l1, subset_list) ==
    IF Len(subset_list) = 0
    THEN [l1b |-> set_subsets(l1, subset_list), raised |-> TRUE]
    ELSE [l1b |-> [set_subsets(l1, subset_list) EXCEPT
                      !.info = [n_records |-> Len(subset_list),
                                is_orbit_subset |-> TRUE]],
          raised |-> FALSE]

MaxTrims == 2

\* index lists of up to NRecords entries into n records
SubsetLists(n) ==
    UNION {[1..k -> 0..(n - 1)] : k \in 0..NRecords}

TInit ==
    /\ \E corrections \in SUBSET {"dry_troposphere", "ionosphere"},
          classifiers \in SUBSET {"sigma0"} :
          l1b = Level1bData(NRecords + 1, corrections, classifiers)
    /\ l2 = << >>
    /\ cfg = << >>
    /\ retracker = NoRetracker
    /\ pc = "full"
    /\ cur = 0
    /\ retval = "None"
    /\ writers = [i \in Records |-> {}]
    /\ log = << >>

TrimReturns(r, subset_list) ==
    /\ l1b' = r.l1b
    /\ cfg' = subset_list
    /\ pc' = IF r.raised THEN "raised" ELSE "trimmed"

\* l1b.trim_to_subset(subset_list), on the full object or on a subset
TrimToSubset ==
    /\ pc \in {"full", "trimmed"}
    /\ cur < MaxTrims
    /\ \E subset_list \in SubsetLists(l1b.info.n_records) :
          TrimReturns(trim_to_subset(l1b, subset_list), subset_list)
    /\ cur' = cur + 1
    /\ UNCHANGED <<l2, retracker, retval, writers, log>>

TNext == TrimToSubset

SpecSubset == TInit /\ [][TNext]_vars


\* ---------------------------------------------------------------------
\* SAMOSA+ waveform collection fit (retracker/samosa_wfm.py)
\* ---------------------------------------------------------------------

SamosaRecords == 3

MaxProcesses == 2

SamosaIndex == 0..(SamosaRecords - 1)

\* WaveformFitData(idx, waveform_data, scenario_data); the waveform and its
\* scenario are both read from the record idx
WaveformFitData(idx, wfm) == [idx |-> idx, waveform_data |-> wfm[idx]]

\* SAMOSAPlusRetracker._get_waveform_fit_data: one entry per target index, in
\* the order of indices
_get_waveform_fit_data(wfm, indices) ==
    [k \in DOMAIN indices |-> WaveformFitData(indices[k], wfm)]

\* samosa_fit_samosap_standard: the two least-squares fits are a function of
\* the fit data alone (the function builds its predictor and its model from
\* its argument); each fitted parameter is kept as an uninterpreted term of
\* the waveform. sigma0 is never passed to the result and keeps its default.
samosa_fit_samosap_standard(fit_data) ==
    [retracker_range         |-> <<"epoch2range", fit_data.waveform_data>>,
     significant_wave_height |-> <<"swh", fit_data.waveform_data>>,
     sigma0                  |-> 0]

\* SAMOSAWaveformCollectionFit._fit_samosap_standard
_fit_samosap_standard(waveform_collection) ==
    [k \in DOMAIN waveform_collection |->
        samosa_fit_samosap_standard(waveform_collection[k])]

\* pool.map's result list before any worker has finished
NoResult == [none |-> TRUE]

PendingResults(waveform_collection) ==
    [k \in DOMAIN waveform_collection |-> NoResult]

\* a collection written as if results were gathered in the order the
\* workers finish
MapResultByCompletion(value, k, result) ==
    [value EXCEPT ![Min({j \in DOMAIN value : value[j] = NoResult})] = result]

\* pool.map: the result of the task at position k of the iterable is put
\* at position k of the returned list
MapResultSet(value, k, result) == [value EXCEPT ![k] = result]

\* SAMOSAPlusRetracker._store_retracker_properties, the first n pairs of
\* zip(indices, fit_results)
RECURSIVE store_pairs(_, _, _, _)
store_pairs(ret, fit_results, indices, n) ==
    IF n = 0 THEN ret
    ELSE [store_pairs(ret, fit_results, indices, n - 1) EXCEPT
             !.range[indices[n]] = fit_results[n].retracker_range,
             !.power[indices[n]] = fit_results[n].sigma0,
             !.swh[indices[n]]   = fit_results[n].significant_wave_height]

_store_retracker_properties(ret, fit_results, indices) ==
    store_pairs(ret, fit_results, indices,
                Min({Len(indices), Len(fit_results)}))

\* the record indices written by _store_retracker_properties, in order
stored_indices(fit_results, indices) ==
    SubSeq(indices, 1, Min({Len(indices), Len(fit_results)}))

\* SAMOSAPlusRetracker.create_retracker_properties
SamosaRetracker ==
    [range       |-> [i \in SamosaIndex |-> NaNv],
     power       |-> [i \in SamosaIndex |-> NaNv],
     swh         |-> [i \in SamosaIndex |-> NaNv],
     fit_results |-> << >>]

\* the target waveforms of the retracker (np.where: ascending, no repeats)
SamosaIndices == {SortedSeq(S) : S \in SUBSET SamosaIndex}

SInit ==
    /\ \E wfm \in [SamosaIndex -> 1..2] : l1b = [power |-> wfm]
    /\ l2 = << >>
    /\ \E mp \in BOOLEAN, np \in 1..MaxProcesses, indices \in SamosaIndices :
          cfg = [use_multiprocessing |-> mp, num_processes |-> np,
                 indices |-> indices]
    /\ retracker = SamosaRetracker
    /\ pc = "fit"
    /\ cur = {}
    /\ retval = "None"
    /\ writers = [i \in SamosaIndex |-> << >>]
    /\ log = << >>

\* the waveform collection of the running l2_retrack
Collection == _get_waveform_fit_data(l1b.power, cfg.indices)

\* positions of the collection no worker has taken yet
Untaken ==
    {k \in DOMAIN retracker.fit_results :
        retracker.fit_results[k] = NoResult /\ k \notin cur}

\* SAMOSAWaveformCollectionFit.fit without multiprocessing
SFitSingle ==
    /\ pc = "fit"
    /\ ~cfg.use_multiprocessing
    /\ retracker' = [retracker EXCEPT
                        !.fit_results = _fit_samosap_standard(Collection)]
    /\ pc' = "joined"
    /\ UNCHANGED <<l1b, l2, cfg, cur, retval, writers, log>>

\* _fit_samosap_standard_mp: the pool is created and pool.map queues one
\* task per waveform
SPoolMap ==
    /\ pc = "fit"
    /\ cfg.use_multiprocessing
    /\ retracker' = [retracker EXCEPT
                        !.fit_results = PendingResults(Collection)]
    /\ pc' = "map"
    /\ UNCHANGED <<l1b, l2, cfg, cur, retval, writers, log>>

\* an idle worker takes the next task of the queue
SWorkerTake ==
    /\ pc = "map"
    /\ Untaken # {}
    /\ Cardinality(cur) < cfg.num_processes
    /\ cur' = cur \cup {Min(Untaken)}
    /\ UNCHANGED <<l1b, l2, cfg, retracker, pc, retval, writers, log>>

\* a worker finishes its fit and hands the result back
SWorkerFinish ==
    /\ pc = "map"
    /\ \E k \in cur :
          /\ retracker' = [retracker EXCEPT !.fit_results =
                 MapResultSet(retracker.fit_results, k,
                              samosa_fit_samosap_standard(Collection[k]))]
          /\ cur' = cur \ {k}
          /\ log' = Append(log, k)
    /\ UNCHANGED <<l1b, l2, cfg, pc, retval, writers>>

\* pool.map returns once every task has a result; pool.close, pool.join
SPoolJoin ==
    /\ pc = "map"
    /\ cur = {}
    /\ \A k \in DOMAIN retracker.fit_results :
          retracker.fit_results[k] # NoResult
    /\ pc' = "joined"
    /\ UNCHANGED <<l1b, l2, cfg, retracker, cur, retval, writers, log>>

\* l2_retrack: _store_retracker_properties(fit_results, indices)
SStore ==
    /\ pc = "joined"
    /\ retracker' = _store_retracker_properties(retracker,
                        retracker.fit_results, cfg.indices)
    /\ writers' = [i \in SamosaIndex |->
          SelectSeq(stored_indices(retracker.fit_results, cfg.indices),
                    LAMBDA j : j = i)]
    /\ pc' = "stored"
    /\ UNCHANGED <<l1b, l2, cfg, cur, retval, log>>

SNext ==
    \/ SFitSingle
    \/ SPoolMap
    \/ SWorkerTake
    \/ SWorkerFinish
    \/ SPoolJoin
    \/ SStore

SpecSamosa == SInit /\ [][SNext]_vars


\* the indices of the retracker's index set
InScope == UpdateIndices(retracker)

\* every bin zero, or every bin NaN
AllZero(wfm) == \A b \in 1..Len(wfm) : wfm[b] = 0
AllNaN(wfm) == \A b \in 1..Len(wfm) : IsNaNv(wfm[b])

\* C1: after retrack() has returned, every index of the index set whose
\* range is NaN has its invalid flag set (TFMRA, cTFMRA, SICCI2TfmraEnvisat).
C1_NaNRangeIsFlagged ==
    pc = "returned" =>
        \A i \in InScope : IsNaN(retracker.range[i]) => retracker.flag[i]

\* range and power of record i are the same in the outputs a and b
SameTrackPoint(a, b, i) == a.range[i] = b.range[i] /\ a.power[i] = b.power[i]

\* the retracker after retracking record i alone, same class and options
RetrackedAlone(i) == retrack(set_indices(retracker, <<i>>), l1b, l2).ret

\* C2: a numeric failure at one record never stops the loop: after
\* retrack(), every index of the index set holds the range and power that
\* retracking its waveform alone gives.
C2_FailureDoesNotStopLoop ==
    pc = "returned" =>
        \A i \in InScope : SameTrackPoint(retracker, RetrackedAlone(i), i)

\* l2_retrack raises for the configuration alone: a threshold type the
\* class does not know
ConfigurationRaises ==
    IF retracker.pyclass = "TFMRA"
    THEN retracker.options.threshold.type # "float"
    ELSE ThresholdRaises(retracker.options.threshold)

\* C3: an all-zero or all-NaN waveform never makes retrack() raise, and its
\* record ends with range NaN, power NaN and the invalid flag set.
C3_DegenerateWaveformIsInvalid ==
    /\ pc = "raised" => ConfigurationRaises
    /\ pc = "returned" =>
          \A i \in InScope :
              (AllZero(l1b.power[i]) \/ AllNaN(l1b.power[i])) =>
                  /\ IsNaN(retracker.range[i])
                  /\ IsNaN(retracker.power[i])
                  /\ retracker.flag[i]

\* C6: retrack() changes the output arrays only at the indices of the index
\* set: outside it range and power are NaN, the uncertainty is 0 and the
\* flag is false, also with a range bias and a fixed uncertainty configured.
C6_OutOfScopeKeepsDefaults ==
    pc = "returned" =>
        \A i \in Records \ InScope :
            /\ IsNaN(retracker.range[i])
            /\ IsNaN(retracker.power[i])
            /\ retracker.uncertainty[i] = RatInt(0)
            /\ ~retracker.flag[i]

\* x and y are both NaN, or equal, or finite and at most 1/10000 apart
Close(x, y) ==
    \/ IsNaN(x) /\ IsNaN(y)
    \/ x = y
    \/ /\ IsFinite(x) /\ IsFinite(y)
       /\ RatLe(RatSub(x, y), Rat(1, 10000))
       /\ RatLe(RatSub(y, x), Rat(1, 10000))

\* range and power of the outputs a and b are close at every index of ii
SameOutputs(a, b, ii) ==
    \A i \in ii : Close(a.range[i], b.range[i]) /\ Close(a.power[i], b.power[i])

\* every waveform of the index set is marked valid and has a positive bin
ValidWaveforms ==
    \A i \in InScope :
        /\ l1b.is_valid[i]
        /\ ~AllZero(l1b.power[i])
        /\ ~AllNaN(l1b.power[i])

\* C9: for the same options, indices and valid waveforms, TFMRA and cTFMRA
\* give the same range and power at every index of the index set.
C9_ReferenceEqualsOptimized ==
    (pc = "returned" /\ retracker.pyclass = "TFMRA" /\ ValidWaveforms) =>
        SameOutputs(retracker,
                    retrack([retracker EXCEPT !.pyclass = "cTFMRA"], l1b, l2).ret,
                    InScope)

\* C10: no step changes the Level-1 waveform arrays: power and range after
\* retrack() are what they were before, for every variant.
C10_WaveformsAreReadOnly ==
    [][l1b'.power = l1b.power /\ l1b'.range = l1b.range]_vars

----------------------------------------------------------------------------
(* Properties of the dispatcher (Spec)                                      *)

\* the retracker definition of the surface type being processed
CurDef == cfg[cur].retracker_def

\* the dispatch has ended in the error of an unknown threshold type
UnknownThresholdError ==
    /\ pc = "error"
    /\ CurDef.pyclass \in {"cTFMRA", "SICCI2TfmraEnvisat"}
    /\ ThresholdRaises(CurDef.options.threshold)

\* C4 as stated: when the threshold type is not recognised the error comes
\* before any record is processed: the retracker holds no range or power
\* entry and the Level-2 data hold no range or elevation entry written by
\* the dispatch call.
C4_NothingWrittenByDispatch ==
    UnknownThresholdError =>
        \A i \in Records :
            /\ IsNaN(retracker.range[i])
            /\ IsNaN(retracker.power[i])
            /\ IsNaN(l2.range[i])
            /\ IsNaN(l2.elev[i])

\* C4 amended: a surface type with records whose cTFMRA or
\* SICCI2TfmraEnvisat definition has an unknown threshold type never gets
\* past retrack(), and when its error ends the dispatch the retracker holds
\* no range or power entry and no Level-2 range or elevation has been
\* written at the records of that surface type.
C4_NothingWrittenForSurfaceType ==
    /\ (pc = "merging" /\ CurDef.pyclass \in {"cTFMRA", "SICCI2TfmraEnvisat"}) =>
          ~ThresholdRaises(CurDef.options.threshold)
    /\ UnknownThresholdError =>
          \A i \in Records :
              /\ IsNaN(retracker.range[i])
              /\ IsNaN(retracker.power[i])
              /\ l2.surface_type[i] = cfg[cur].surface_type =>
                    /\ writers[i] = {}
                    /\ IsNaN(l2.range[i])
                    /\ IsNaN(l2.elev[i])

\* the error of an unknown threshold type has ended a dispatch that had
\* merged the ranges of an earlier surface type
C4_Witness ==
    /\ UnknownThresholdError
    /\ \E i \in Records : writers[i] # {} /\ IsFinite(l2.range[i])

\* entry k of the configuration names a class the module does not have
UnknownClass(k) == cfg[k].retracker_def.pyclass \notin RetrackerClasses \cup FilterClasses

\* C5 as stated: a dispatch whose configuration names a class that does not
\* exist never completes normally, whatever the surface types of the
\* records.
C5_UnknownClassIsAlwaysFatal ==
    pc = "done" => \A k \in 1..Len(cfg) : ~UnknownClass(k)

\* C5 amended: an entry naming a class that does not exist is never
\* retracked or merged, and a dispatch completes normally only if no record
\* has the surface type of such an entry.
C5_UnknownClassIsFatalWhenReached ==
    /\ pc \in {"retracking", "merging"} => ~UnknownClass(cur)
    /\ pc = "done" =>
          \A k \in 1..Len(cfg) :
              UnknownClass(k) =>
                  get_by_name(l2.surface_type, cfg[k].surface_type).num = 0

\* the lookup of a class that does not exist has ended the dispatch at a
\* surface type that has records
C5_Witness ==
    /\ pc = "error"
    /\ UnknownClass(cur)
    /\ get_by_name(l2.surface_type, cfg[cur].surface_type).num > 0

\* the Level-2 range, elevation and uncertainties of record i are unchanged
\* by the step
L2RecordKept(i) ==
    /\ l2'.range[i] = l2.range[i]
    /\ l2'.elev[i] = l2.elev[i]
    /\ l2'.range_uncertainty[i] = l2.range_uncertainty[i]
    /\ l2'.elev_uncertainty[i] = l2.elev_uncertainty[i]

\* C7: processing one surface type changes the Level-2 range, elevation
\* and their uncertainties only at the records of that surface type.
C7_OtherSurfaceTypesKept ==
    [][\A i \in Records :
          \/ pc = "merging" /\ l2.surface_type[i] = cfg[cur].surface_type
          \/ L2RecordKept(i)]_vars

\* both configured surface types have been merged, each with a finite range
C7_Witness ==
    /\ pc = "selecting"
    /\ cur > Len(cfg)
    /\ \E i, j \in Records :
          /\ writers[i] = {ConfiguredSurfaceTypes[1]}
          /\ writers[j] = {ConfiguredSurfaceTypes[2]}
          /\ IsFinite(l2.range[i])
          /\ IsFinite(l2.range[j])

\* the surface types the configuration has an entry for
Configured == {cfg[k].surface_type : k \in 1..Len(cfg)}

\* C8: every record is written by the retracker of at most one surface
\* type, its own (a record flagged as invalid was written by the retracker
\* that flagged it); a record no retracker has written still holds NaN, and
\* after a complete dispatch the records written are those of the
\* configured surface types.
C8_Partition ==
    \A i \in Records :
        /\ Cardinality(writers[i]) <= 1
        /\ IF l2.surface_type[i] = "invalid"
           THEN writers[i] # {}
           ELSE /\ writers[i] \subseteq {l2.surface_type[i]}
                /\ pc = "done" =>
                      (writers[i] # {} <=> l2.surface_type[i] \in Configured)
        /\ writers[i] = {} => IsNaN(l2.range[i]) /\ IsNaN(l2.elev[i])

\* a complete dispatch has written one record and left another one NaN
C8_Witness ==
    /\ pc = "done"
    /\ \E i, j \in Records :
          /\ writers[i] = {l2.surface_type[i]}
          /\ IsFinite(l2.range[i])
          /\ writers[j] = {}
          /\ IsNaN(l2.range[j])

----------------------------------------------------------------------------
(* Properties settled on the retrack() contract, continued (SpecRetrack)    *)

\* the output arrays of ret hold the defaults at every record
HoldsDefaults(ret) ==
    \A i \in Records :
        /\ IsNaN(ret.range[i])
        /\ IsNaN(ret.power[i])
        /\ ret.uncertainty[i] = RatInt(0)
        /\ ~ret.flag[i]

\* the index array is set and empty
EmptyIndexSet(ret) == ~ret.indices.none /\ Len(ret.indices.idx) = 0

\* C11: retrack() with an empty index set returns False without running
\* l2_retrack: nothing is raised, no auxiliary output is registered, the
\* waveforms are as before and the output arrays hold the defaults; with a
\* non-empty index set a retrack() that returns, returns True.
C11_EmptyIndexSetIsNoOp ==
    [][(pc \in {"options", "indices"} /\ pc' \in {"returned", "raised"}) =>
          IF EmptyIndexSet(retracker)
          THEN /\ pc' = "returned"
               /\ retval' = "False"
               /\ l1b' = l1b
               /\ retracker'.auxdata_output = retracker.auxdata_output
               /\ HoldsDefaults(retracker')
          ELSE pc' = "returned" => retval' = "True"]_vars

\* retrack() has returned False for an empty index set on a cTFMRA instance
C11_Witness ==
    /\ pc = "returned"
    /\ retval = "False"
    /\ EmptyIndexSet(retracker)
    /\ retracker.pyclass = "cTFMRA"
    /\ retracker.auxdata_output = << >>

\* the entry of log of the last retrack() call, when it is the last step
LastCall == log[Len(log)]

\* C12 as stated: the default arrays are allocated only if not present, so
\* after a later retrack() on the same instance the range and power stored
\* by the earlier call outside the later index set are still there.
C12_EarlierResultsKept ==
    (pc = "returned" /\ Calls >= 2) =>
        \A i \in Records \ InScope :
            /\ retracker.range[i] = LastCall.range[i]
            /\ retracker.power[i] = LastCall.power[i]

\* C12 amended: every retrack() allocates the default arrays anew: after
\* it has returned, range and power are NaN and the flag is false at every
\* record outside the index set of that call, whatever an earlier call on
\* the instance had stored there.
C12_DefaultsAllocatedAnew ==
    pc = "returned" =>
        /\ DOMAIN retracker.range = Records
        /\ DOMAIN retracker.power = Records
        /\ \A i \in Records \ InScope :
              /\ IsNaN(retracker.range[i])
              /\ IsNaN(retracker.power[i])
              /\ ~retracker.flag[i]

\* a second retrack() has returned, and a record outside its index set for
\* which the instance held a range before the call holds NaN now
C12_Witness ==
    /\ pc = "returned"
    /\ Calls = 2
    /\ \E i \in Records \ InScope :
          /\ IsFinite(LastCall.range[i])
          /\ IsNaN(retracker.range[i])

\* coef[k] + x*(coef[k+1] + x*(...)): the polynomial with the coefficients
\* coef in increasing order of the power, evaluated at x
RECURSIVE Horner(_, _, _)
Horner(coef, x, k) ==
    IF k > Len(coef) THEN RatInt(0)
    ELSE RatAdd(coef[k], RatMul(x, Horner(coef, x, k + 1)))

\* the threshold the sitype_sigma_func policy is to give record i
SitypeThreshold(option, i) ==
    IF RatLt(Rat(1, 2), l2.sitype[i])
    THEN Horner(option.coef_myi, l1b.classifier.sigma0[i], 1)
    ELSE Horner(option.coef_fyi, l1b.classifier.sigma0[i], 1)

\* the threshold array the retracker's get_tfmra_threshold gives
ThresholdOf(ret) ==
    IF ret.pyclass = "cTFMRA"
    THEN c_get_tfmra_threshold(ret.options, l1b, l2, ret.indices.idx)
    ELSE sicci2_get_tfmra_threshold(ret.options, l1b, l2, ret.indices.idx)

\* C13: with the sitype_sigma_func policy the threshold of every record of
\* the index set is the MYI polynomial in sigma0 where sitype > 0.5 and the
\* FYI polynomial otherwise, so the FYI polynomial at sitype = 0.5 (cTFMRA
\* and SICCI2TfmraEnvisat; for cTFMRA also the registered threshold array).
C13_SitypeBoundary ==
    (/\ pc = "returned"
     /\ retracker.pyclass \in {"cTFMRA", "SICCI2TfmraEnvisat"}
     /\ retracker.options.threshold.type = "sitype_sigma_func") =>
        \A i \in InScope :
            /\ ThresholdOf(retracker)[i] = SitypeThreshold(retracker.options.threshold, i)
            /\ l2.sitype[i] = Rat(1, 2) =>
                  ThresholdOf(retracker)[i] =
                      Horner(retracker.options.threshold.coef_fyi,
                             l1b.classifier.sigma0[i], 1)
            /\ retracker.pyclass = "cTFMRA" =>
                  retracker.auxdata_output[Len(retracker.auxdata_output)].value[i]
                      = SitypeThreshold(retracker.options.threshold, i)

\* a cTFMRA retrack() with the sitype_sigma_func policy has returned for an
\* index set with a record of sitype 0.5 and a record of sitype above 0.5,
\* where the two polynomials differ
C13_Witness ==
    /\ pc = "returned"
    /\ retracker.pyclass = "cTFMRA"
    /\ retracker.options.threshold.type = "sitype_sigma_func"
    /\ \E i, j \in InScope :
          /\ l2.sitype[i] = Rat(1, 2)
          /\ RatLt(Rat(1, 2), l2.sitype[j])
          /\ Horner(retracker.options.threshold.coef_fyi, l1b.classifier.sigma0[i], 1)
                # Horner(retracker.options.threshold.coef_myi, l1b.classifier.sigma0[i], 1)

----------------------------------------------------------------------------
(* Properties of the dispatcher, continued (Spec)                           *)

\* the entry at position e of log is the step name for configuration entry k
IsStep(e, name, k) == e <= Len(log) /\ log[e].step = name /\ log[e].at = k

\* from position e on, log handles the configuration entries k, k+1, ... in
\* order and ends with the last one: each is one skip, or one select,
\* configure, retrack and merge in that order
RECURSIVE HandledFrom(_, _)
HandledFrom(e, k) ==
    IF k > Len(cfg) THEN e = Len(log) + 1
    ELSE \/ IsStep(e, "skip", k) /\ HandledFrom(e + 1, k + 1)
         \/ /\ IsStep(e, "select", k)
            /\ IsStep(e + 1, "configure", k)
            /\ IsStep(e + 2, "retrack", k)
            /\ IsStep(e + 3, "merge", k)
            /\ HandledFrom(e + 4, k + 1)

\* C14: the dispatcher is done only when every configured pair has been
\* handled exactly once, in configuration order, each skipped or taken
\* through select, configure, retrack and merge; and a merge always comes
\* right after the retrack of the same surface type.
C14_HandledOnceInOrder ==
    /\ pc = "done" => HandledFrom(1, 1)
    /\ \A e \in DOMAIN log :
          log[e].step = "merge" => e > 1 /\ IsStep(e - 1, "retrack", log[e].at)

\* a dispatch is done that has skipped one surface type and merged another
C14_Witness ==
    /\ pc = "done"
    /\ \E e, f \in DOMAIN log : log[e].step = "skip" /\ log[f].step = "merge"

\* C15: a configured surface type without records is skipped without
\* error: the step invokes no retracker, leaves the Level-2 data (range,
\* elevation, uncertainties, surface type) and the waveforms as they are,
\* and the dispatch goes on with the next surface type.
C15_SkipChangesNothing ==
    [][(/\ pc = "selecting"
        /\ cur <= Len(cfg)
        /\ get_by_name(l2.surface_type, cfg[cur].surface_type).num = 0) =>
          /\ pc' = "selecting"
          /\ cur' = cur + 1
          /\ l2' = l2
          /\ l1b' = l1b
          /\ retracker' = retracker
          /\ log' = Append(log, Step("skip", cur))]_vars

\* the first surface type has been skipped and the dispatch has gone on to
\* retrack the second
C15_Witness ==
    \E e, f \in DOMAIN log :
        /\ e < f
        /\ IsStep(e, "skip", 1)
        /\ IsStep(f, "retrack", 2)

\* the last step taken is the merge of a surface type
JustMerged == Len(log) > 0 /\ log[Len(log)].step = "merge"

\* C16: after a surface type is merged, at every index of its retracker the
\* Level-2 range is the retracker's range, the elevation is altitude minus
\* that range (NaN where the range is NaN), and the range uncertainty and
\* the elevation uncertainty both are the retracker's uncertainty.
C16_MergedValues ==
    JustMerged =>
        \A i \in InScope :
            /\ l2.range[i] = retracker.range[i]
            /\ IF IsFinite(retracker.range[i])
               THEN RatAdd(l2.elev[i], retracker.range[i]) = l2.altitude[i]
               ELSE IsNaN(l2.elev[i])
            /\ l2.range_uncertainty[i] = retracker.uncertainty[i]
            /\ l2.elev_uncertainty[i] = retracker.uncertainty[i]

\* a surface type has just been merged with a finite range and a fixed
\* uncertainty at one of its records
C16_Witness ==
    /\ JustMerged
    /\ \E i \in InScope :
          /\ IsFinite(l2.range[i])
          /\ IsFinite(l2.elev[i])
          /\ l2.elev_uncertainty[i] = FixedUncertainty.uncertainty.value

\* C17: after a surface type is merged, the power its retracker computed
\* for a record is held by the Level-2 output at that record, in one of its
\* auxiliary variables (the Level-2 container has no other place for it).
C17_PowerMerged ==
    JustMerged =>
        \A i \in InScope :
            IsFinite(retracker.power[i]) =>
                \E v \in DOMAIN l2.aux : l2.aux[v].value[i] = retracker.power[i]

\* the records some merged surface type's retracker flagged as invalid
FlaggedByMerge(i) ==
    \E e \in DOMAIN log : log[e].step = "merge" /\ log[e].flag[i]

\* C18: the records of surface type "invalid" are those flagged by the
\* retracker of one of the surface types merged so far (the OR of their error
\* flags); a later merge adds to them and never takes one away.
C18_InvalidIsOrOfFlags ==
    \A i \in Records : l2.surface_type[i] = "invalid" <=> FlaggedByMerge(i)

\* two surface types were merged, each retracker flagged a record the other
\* one did not, and both records are invalid
C18_Witness ==
    \E e, f \in DOMAIN log, i, j \in Records :
        /\ e < f
        /\ log[e].step = "merge" /\ log[f].step = "merge"
        /\ log[e].flag[i] /\ ~log[f].flag[i]
        /\ log[f].flag[j] /\ ~log[e].flag[j]
        /\ l2.surface_type[i] = "invalid" /\ l2.surface_type[j] = "invalid"

\* C19: set_waveform_data raises ValueError for power and range of different
\* shapes and for arrays that are not 2-dimensional, and whenever it raises,
\* the power and range arrays the container stores are the ones it stored
\* before the call.
C19_ErrorKeepsStoredArrays ==
    [][/\ pc' = "raised" => l1b'.power = l1b.power /\ l1b'.range = l1b.range
       /\ pc' = "set" => /\ l1b'.power.shape = l1b'.range.shape
                         /\ Len(l1b'.power.shape) = 2]_vars

\* the threshold the configured policy asks for at record i
PolicyThreshold(option, i) ==
    IF option.type \in {"float", "fixed"} THEN option.value
    ELSE SitypeThreshold(option, i)

\* the retracker has registered the threshold array as auxiliary output: an
\* entry tfmra_threshold with one value per record, the policy's threshold at
\* the records of the index set and NaN at the others
ThresholdRegistered(ret) ==
    \E e \in DOMAIN ret.auxdata_output :
        /\ ret.auxdata_output[e].var_name = "tfmra_threshold"
        /\ DOMAIN ret.auxdata_output[e].value = Records
        /\ \A i \in Records :
              IF i \in UpdateIndices(ret)
              THEN ret.auxdata_output[e].value[i]
                       = PolicyThreshold(ret.options.threshold, i)
              ELSE IsNaN(ret.auxdata_output[e].value[i])

\* C20 as stated: after every retrack() call of a cTFMRA instance the
\* threshold array is registered.
C20_ThresholdAlwaysRegistered ==
    (pc = "returned" /\ retracker.pyclass = "cTFMRA") =>
        ThresholdRegistered(retracker)

\* C20: after every retrack() call of a cTFMRA instance that returned True
\* (the index set is not empty and the threshold type is recognized) the
\* threshold array is registered; a call on an empty index set returns False
\* and registers nothing.
C20_ThresholdRegisteredWhenRetracked ==
    (pc = "returned" /\ retracker.pyclass = "cTFMRA") =>
        IF retval = "True"
        THEN ThresholdRegistered(retracker)
        ELSE retracker.auxdata_output = << >>

\* a cTFMRA retrack() has returned True for an index set that leaves a
\* record out, with a range found for a record of the index set
C20_Witness ==
    /\ pc = "returned" /\ retval = "True"
    /\ retracker.pyclass = "cTFMRA"
    /\ ThresholdRegistered(retracker)
    /\ InScope # Records
    /\ \E i \in InScope : IsFinite(retracker.range[i])

\* the merge steps that registered an auxiliary variable for a non-empty
\* index set
AuxMerges ==
    {e \in DOMAIN log : /\ log[e].step = "merge"
                        /\ log[e].aux # << >>
                        /\ log[e].indices # << >>}

\* C21: an auxiliary variable registered by the runs of several surface types
\* is not overwritten: the Level-2 variable has one value per record and, at
\* every index of a merged run, the value that run registered.
C21_AuxiliaryNotOverwritten ==
    \A e \in AuxMerges : \A a \in DOMAIN log[e].aux :
        /\ log[e].aux[a].var_id \in DOMAIN l2.aux
        /\ DOMAIN l2.aux[log[e].aux[a].var_id].value = Records
        /\ \A p \in DOMAIN log[e].indices :
              l2.aux[log[e].aux[a].var_id].value[log[e].indices[p]]
                  = log[e].aux[a].value[log[e].indices[p]]

\* the same algorithm has run for two surface types and both runs
\* registered finite thresholds
C21_Witness ==
    \E e, f \in AuxMerges :
        /\ e < f
        /\ cfg[log[e].at].retracker_def.pyclass = cfg[log[f].at].retracker_def.pyclass
        /\ \A p \in DOMAIN log[e].indices :
              IsFinite(l2.aux["tfmrathr"].value[log[e].indices[p]])
        /\ \A p \in DOMAIN log[f].indices :
              IsFinite(l2.aux["tfmrathr"].value[log[f].indices[p]])

\* the 0-based indices before the first maximum whose power exceeds
\* threshold * power[first maximum]
Exceeding(threshold) ==
    {j \in 0..(cur - 1) : RatLt(RatMul(threshold, l1b.wfm[cur + 1]), l1b.wfm[j + 1])}

\* the first index of every contiguous run of a set of indices
RunStarts(points) == {p \in points : (p - 1) \notin points}

\* range r lies between the range of sample c - 1 and that of sample c
Between(r, c) ==
    /\ IsFinite(r)
    /\ RatLe(l1b.rng[c], r)
    /\ RatLe(r, l1b.rng[c + 1])

\* C22: the crossing is taken at the starting index of the last contiguous
\* run of samples above the target power, for every retracker class: the
\* range returned lies between the ranges of that sample and its predecessor.
C22_CrossingAtLastRun ==
    \A e \in DOMAIN log :
        (/\ log[e].step = "get_threshold_range"
         /\ Exceeding(log[e].threshold) # {}
         /\ Max(RunStarts(Exceeding(log[e].threshold))) >= 1) =>
            Between(log[e].range, Max(RunStarts(Exceeding(log[e].threshold))))

\* C23: for one filtered waveform and first-maximum index, of two thresholds
\* whose crossings both exist the higher one gives a crossing range that is
\* greater than or equal to that of the lower one.
C23_ThresholdMonotone ==
    \A e, f \in DOMAIN log :
        (/\ RatLt(log[e].threshold, log[f].threshold)
         /\ IsFinite(log[e].range)
         /\ IsFinite(log[f].range)) =>
            RatLe(log[e].range, log[f].range)

\* C25: whenever get_threshold_range returns a range that is not NaN, the
\* crossing sample i it selected is >= 1 and the range lies between the range
\* of sample i - 1 and that of sample i, with power[i-1] <= target < power[i]:
\* some sample i >= 1 above the target power, with a predecessor that is
\* not, brackets the returned range.
C25_PredecessorIsAdjacent ==
    \A e \in DOMAIN log :
        ~IsNaN(log[e].range) =>
            \E i \in Exceeding(log[e].threshold) :
                /\ i >= 1
                /\ (i - 1) \notin Exceeding(log[e].threshold)
                /\ Between(log[e].range, i)

\* C26: get_threshold_range never returns an infinite range: a zero power
\* gradient between the crossing sample and its predecessor gives NaN.
C26_NoInfiniteRange ==
    \A e \in DOMAIN log : ~IsInf(log[e].range)

\* the 0-based index of the absolute maximum of the filtered waveform
AbsoluteMaximum ==
    Min({j \in 0..(KernelBins - 1) :
            \A t \in 1..KernelBins : RatLe(l1b.wfm[t], l1b.wfm[j + 1])})

\* sample j is above its neighbours (sample 0 has one neighbour only)
LocalMaximum(j) ==
    /\ j = 0 \/ RatLt(l1b.wfm[j], l1b.wfm[j + 1])
    /\ j = KernelBins - 1 \/ RatLt(l1b.wfm[j + 2], l1b.wfm[j + 1])

\* the local maxima strictly before the absolute maximum whose power is
\* at least peak_minimum_power
QualifyingMaxima ==
    {j \in 0..(AbsoluteMaximum - 1) :
        LocalMaximum(j) /\ RatLe(cfg.peak_minimum_power, l1b.wfm[j + 1])}

\* C24: get_first_maximum_index returns the leftmost local maximum before
\* the absolute maximum whose power is >= peak_minimum_power, and the index
\* of the absolute maximum when there is none, for every waveform with a
\* finite maximum.
C24_FirstMaximumSelection ==
    pc # "filtered" =>
        cur = IF QualifyingMaxima # {} THEN Min(QualifyingMaxima)
              ELSE AbsoluteMaximum

\* C27: cTFMRA skips every record of the index set whose is_valid flag is
\* false, its range and power stay NaN; the other records of the index set
\* are processed (a single-peak waveform gets a range and a power).
C27_InvalidWaveformsSkipped ==
    (pc = "returned" /\ retval = "True" /\ retracker.pyclass = "cTFMRA") =>
        \A i \in InScope :
            IF ~l1b.is_valid[i]
            THEN IsNaN(retracker.range[i]) /\ IsNaN(retracker.power[i])
            ELSE l1b.power[i] = WfmSinglePeak =>
                    IsFinite(retracker.range[i]) /\ IsFinite(retracker.power[i])

\* cTFMRA has returned for an index set with an invalid record that holds a
\* single-peak waveform and a valid record that got a range
C27_Witness ==
    /\ pc = "returned" /\ retval = "True" /\ retracker.pyclass = "cTFMRA"
    /\ \E i, j \in InScope :
          /\ ~l1b.is_valid[i] /\ l1b.power[i] = WfmSinglePeak
          /\ IsNaN(retracker.range[i])
          /\ l1b.is_valid[j] /\ IsFinite(retracker.range[j])

\* C28: for an echo whose power is the constant c in the bins the noise
\* window covers, the noise floor get_filtered_wfm computes is c (the noise
\* level is in normalized units, so times the normalization factor it is c),
\* whatever the smoothing window.
C28_NoiseFloorExact ==
    pc = "filtered" =>
        RatMul(retracker.noise_level, retracker.norm) = RatInt(l1b.power[1])

\* every parameter of a data group holds the records of the old array at
\* the listed indices
GroupTrimmed(new, old, subset_list) ==
    \A p \in DOMAIN old :
        /\ Len(new[p]) = Len(subset_list)
        /\ \A k \in 1..Len(subset_list) : new[p][k] = old[p][subset_list[k] + 1]

\* C29: after trim_to_subset(subset_list) every data group (time_orbit,
\* correction, classifier, waveform) holds exactly len(subset_list) records,
\* those at the listed indices, and info.n_records is len(subset_list).
C29_EveryGroupTrimmed ==
    [][pc' = "trimmed" =>
          /\ GroupTrimmed(l1b'.time_orbit, l1b.time_orbit, cfg')
          /\ GroupTrimmed(l1b'.correction, l1b.correction, cfg')
          /\ GroupTrimmed(l1b'.classifier, l1b.classifier, cfg')
          /\ GroupTrimmed(l1b'.waveform, l1b.waveform, cfg')
          /\ l1b'.info.n_records = Len(cfg')]_vars

\* the arrays the single-process path stores for the same inputs
SingleProcessStored ==
    _store_retracker_properties(SamosaRetracker,
                                _fit_samosap_standard(Collection), cfg.indices)

\* C30: with multiprocessing, the collection fit returns one result per input
\* waveform in input order, every fit result is stored at the record index of
\* the waveform it was computed from, every target index is written exactly
\* once (and no other index is written), and the stored arrays equal those of
\* the single-process path, whatever the order in which the workers finished.
C30_ResultsInInputOrder ==
    (cfg.use_multiprocessing /\ pc \in {"joined", "stored"}) =>
        /\ Len(retracker.fit_results) = Len(cfg.indices)
        /\ \A k \in DOMAIN cfg.indices :
              retracker.fit_results[k] = samosa_fit_samosap_standard(
                  WaveformFitData(cfg.indices[k], l1b.power))
        /\ pc = "stored" =>
              /\ \A i \in SamosaIndex :
                    IF \E k \in DOMAIN cfg.indices : cfg.indices[k] = i
                    THEN /\ Len(writers[i]) = 1
                         /\ retracker.range[i] = samosa_fit_samosap_standard(
                                WaveformFitData(i, l1b.power)).retracker_range
                         /\ retracker.swh[i] = samosa_fit_samosap_standard(
                                WaveformFitData(i, l1b.power)).significant_wave_height
                    ELSE /\ Len(writers[i]) = 0
                         /\ retracker.range[i] = NaNv
                         /\ retracker.swh[i] = NaNv
              /\ retracker.range = SingleProcessStored.range
              /\ retracker.power = SingleProcessStored.power
              /\ retracker.swh = SingleProcessStored.swh

\* results were stored after the workers finished in another order than the
\* input order, on waveforms whose fits differ
C30_Witness ==
    /\ pc = "stored"
    /\ cfg.use_multiprocessing
    /\ Len(log) >= 2
    /\ \E p \in 1..(Len(log) - 1) :
          /\ log[p] > log[p + 1]
          /\ l1b.power[cfg.indices[log[p]]] # l1b.power[cfg.indices[log[p + 1]]]

====
